---- MODULE Spec2Model ----
(***************************************************************************)
(* A model of the TCL navigation providers (outline, go-to-definition).    *)
(*                                                                         *)
(* A document is a sequence of lexical tokens.  Every token stands for a   *)
(* run of characters that the providers' patterns treat as a unit: a       *)
(* keyword or identifier (a run of \w characters), "::", one brace, "$",   *)
(* one blank " ", one line break "\n", or one other character.  Offsets    *)
(* are 0-based token offsets, as the code's offsets are 0-based character  *)
(* offsets; two adjacent word tokens read as one longer word.              *)
(***************************************************************************)
EXTENDS Integers, Sequences, FiniteSets, TLC

VARIABLES
    text,        \* the open document
    files,       \* the texts of the other .tcl files of the workspace
    braceCall,   \* the last findMatchingBrace call and its result
    symbols,     \* the outline returned for the text
    definition,  \* the answer of the last definition query
    query,       \* the definition query suspended in searchInWorkspace
    cancelled,   \* token.isCancellationRequested of that query
    scan,        \* the loop of a query that is running, and its cursor
    hover,       \* the answer of the last hover query
    folding      \* the folding ranges returned for the text

vars == <<text, files, braceCall, symbols, definition, query, cancelled, scan, hover,
         folding>>

\* ------------------------------------------------------------------ values

\* JavaScript's null (findMatchingBrace's "not found", a failed exec()).
Null == -1

\* A result variable holds None until its query has run on the current text,
\* and <<r>> once the query has returned r.
None == <<>>

Returned(r) == <<r>>

\* `x ? a : b` on a value of type number | null: null and 0 are both falsy.
Truthy(v) == v # Null /\ v # 0

Min(a, b) == IF a < b THEN a ELSE b

Max(a, b) == IF a < b THEN b ELSE a

\* ------------------------------------------------------------------ text

\* text.charAt(off) for a 0-based offset; "" outside the text.
CharAt(t, off) == IF off >= 0 /\ off < Len(t) THEN t[off + 1] ELSE ""

\* text.substring(from, to) with 0-based offsets, `to` exclusive.
Substring(t, from, to) ==
    LET a == Max(0, Min(from, Len(t)))
        b == Max(0, Min(to, Len(t)))
        lo == Min(a, b)
        hi == Max(a, b)
    IN  [k \in 1..(hi - lo) |-> t[lo + k]]

\* The tokens that are runs of \w characters.
Keywords == {"proc", "namespace", "eval", "variable", "set", "array",
             "if", "elseif", "else", "foreach", "for", "while", "switch", "catch"}

Names == {"f", "g", "h", "a", "b", "x", "y", "NS", "M", "1", "5", "leaf", "puts", "after"}

IsWord(c) == c \in Keywords \cup Names

\* \s
IsSpace(c) == c \in {" ", "\n"}

\* ------------------------------------------------------------ brace matcher

RECURSIVE ScanBrace(_, _, _)
\* The while loop of findMatchingBrace: <<pos, braceCount>> when it exits.
ScanBrace(t, pos, braceCount) ==
    IF pos < Len(t) /\ braceCount > 0
    THEN LET char == CharAt(t, pos)
         IN  ScanBrace(t, pos + 1,
                       IF char = "{" THEN braceCount + 1
                       ELSE IF char = "}" THEN braceCount - 1
                       ELSE braceCount)
    ELSE <<pos, braceCount>>

RECURSIVE ScanBraceFlat(_, _, _)
\* ScanBrace with the increment on "{" lost: every "}" closes.
ScanBraceFlat(t, pos, braceCount) ==
    IF pos < Len(t) /\ braceCount > 0
    THEN ScanBraceFlat(t, pos + 1,
                       IF CharAt(t, pos) = "}" THEN braceCount - 1 ELSE braceCount)
    ELSE <<pos, braceCount>>

\* findMatchingBrace without nesting: the first "}" after the opening brace.
findMatchingBraceFlat(t, openBracePos) ==
    LET r == ScanBraceFlat(t, openBracePos + 1, 1)
    IN  IF r[2] = 0 THEN r[1] - 1 ELSE Null

\* findMatchingBrace without the final test of braceCount: the end of the text
\* is reported when the brace is never closed.
findMatchingBraceNoNull(t, openBracePos) ==
    LET r == ScanBrace(t, openBracePos + 1, 1)
    IN  r[1] - 1

\* findMatchingBrace(text, openBracePos): the offset of the matching "}" or null.
findMatchingBrace(t, openBracePos) ==
    LET r == ScanBrace(t, openBracePos + 1, 1)
    IN  IF r[2] = 0 THEN r[1] - 1 ELSE Null

\* ---------------------------------------------------------------- positions

\* Offsets outside the document are clamped, as positionAt does.
ClampOffset(t, off) == Max(0, Min(off, Len(t)))

\* Offset of the first token of the line that holds offset off.
RECURSIVE LineStartOf(_, _)
LineStartOf(t, off) ==
    IF off <= 0 THEN 0
    ELSE IF CharAt(t, off - 1) = "\n" THEN off
    ELSE LineStartOf(t, off - 1)

\* Offset of the line break that ends the line holding off (Len(t) on the last line).
RECURSIVE LineEndOf(_, _)
LineEndOf(t, off) ==
    IF off >= Len(t) THEN Len(t)
    ELSE IF CharAt(t, off) = "\n" THEN off
    ELSE LineEndOf(t, off + 1)

\* Number of line breaks before offset off.
RECURSIVE LineNumberOf(_, _)
LineNumberOf(t, off) ==
    IF off <= 0 THEN 0
    ELSE LineNumberOf(t, off - 1) + (IF CharAt(t, off - 1) = "\n" THEN 1 ELSE 0)

\* document.positionAt(offset)
positionAt(t, off) ==
    LET o == ClampOffset(t, off)
    IN  [line |-> LineNumberOf(t, o), character |-> o - LineStartOf(t, o)]

\* Offset of the first token of line number `line`.
RECURSIVE OffsetOfLine(_, _, _)
OffsetOfLine(t, line, from) ==
    IF line <= 0 THEN from
    ELSE LET e == LineEndOf(t, from)
         IN  IF e >= Len(t) THEN Len(t) ELSE OffsetOfLine(t, line - 1, e + 1)

\* document.offsetAt(position)
offsetAt(t, pos) ==
    LET s == OffsetOfLine(t, pos.line, 0)
    IN  Min(s + pos.character, LineEndOf(t, s))

\* document.lineAt(line).range.end
lineRangeEnd(t, line) ==
    LET s == OffsetOfLine(t, line, 0)
    IN  [line |-> line, character |-> LineEndOf(t, s) - s]

\* Position.isBefore / isBeforeOrEqual / isAfter
isBefore(p, q) == p.line < q.line \/ (p.line = q.line /\ p.character < q.character)

isBeforeOrEqual(p, q) == p = q \/ isBefore(p, q)

isAfter(p, q) == isBefore(q, p)

\* new vscode.Range(start, end)
Range(startPos, endPos) ==
    IF isBefore(endPos, startPos)
    THEN [start |-> endPos, end |-> startPos]
    ELSE [start |-> startPos, end |-> endPos]

\* Range.contains(range)
containsRange(r, q) == isBeforeOrEqual(r.start, q.start) /\ isBeforeOrEqual(q.end, r.end)

\* Range.contains(position)
containsPosition(r, p) == isBeforeOrEqual(r.start, p) /\ isBeforeOrEqual(p, r.end)

\* ------------------------------------------------------------------ patterns
\* Every pattern of the code is an operator that gives, for a start offset i
\* of the scanned string, the match the regular expression finds when it is
\* tried at i: None, or <<m>> with m.index = i, m.end the offset after the
\* match and the captured groups.  ExecAll repeats exec() as the /g loops do.

WordTokens == Keywords \cup Names

SpaceTokens == {" ", "\n"}

\* First offset >= k whose token is not in S (Len(t) when there is none).
RECURSIVE SkipIn(_, _, _)
SkipIn(t, k, S) ==
    IF k < Len(t) /\ t[k + 1] \in S THEN SkipIn(t, k + 1, S) ELSE k

\* First offset >= k whose token is in S (Len(t) when there is none).
RECURSIVE SkipNotIn(_, _, _)
SkipNotIn(t, k, S) ==
    IF k < Len(t) /\ t[k + 1] \notin S THEN SkipNotIn(t, k + 1, S) ELSE k

\* ^ under the m flag
AtLineStart(t, i) == i = 0 \/ CharAt(t, i - 1) = "\n"

\* value.trim()
RECURSIVE TrimEnd(_)
TrimEnd(v) ==
    IF Len(v) > 0 /\ v[Len(v)] \in SpaceTokens THEN TrimEnd(SubSeq(v, 1, Len(v) - 1)) ELSE v

Trim(v) == TrimEnd(Substring(v, SkipIn(v, 0, SpaceTokens), Len(v)))

\* The while ((m = re.exec(s)) !== null) loop: the matches from lastIndex `from`
\* on, leftmost first, each search resuming at the end of the previous match.
\* at[i] is the match tried at offset i.
RECURSIVE ExecAll(_, _, _)
ExecAll(at, n, from) ==
    IF from > n THEN <<>>
    ELSE IF at[from] # None THEN <<at[from][1]>> \o ExecAll(at, n, at[from][1].end)
    ELSE ExecAll(at, n, from + 1)

\* The first match of a fresh regular expression: re.exec(s) with lastIndex 0.
RECURSIVE ExecFirst(_, _, _)
ExecFirst(at, n, from) ==
    IF from > n THEN None
    ELSE IF at[from] # None THEN at[from]
    ELSE ExecFirst(at, n, from + 1)

\* \s+(.+)$ tried at offset w: the greedy \s+ gives back blanks until (.+)
\* has a character that is not a line break; (.+) then runs to the line's end.
WsDotPlus(t, w) ==
    LET w2 == SkipIn(t, w, SpaceTokens)
        back == {k \in (w + 1)..(w2 - 1) : CharAt(t, k) = " "}
        vstart == IF w2 < Len(t) THEN w2
                  ELSE IF back # {} THEN CHOOSE k \in back : \A j \in back : j <= k
                  ELSE Null
    IN  IF w2 = w \/ vstart = Null THEN None
        ELSE Returned([vstart |-> vstart, end |-> SkipNotIn(t, vstart, {"\n"})])

\* (\w+)\s*{([^}]*)}\s*{ tried at offset k.
ProcTailAt(t, k) ==
    LET w == SkipIn(t, k, WordTokens)
        b == SkipIn(t, w, SpaceTokens)
        c == SkipNotIn(t, b + 1, {"}"})
        d == SkipIn(t, c + 1, SpaceTokens)
    IN  IF w > k /\ CharAt(t, b) = "{" /\ CharAt(t, c) = "}" /\ CharAt(t, d) = "{"
        THEN Returned([name |-> Substring(t, k, w), args |-> Substring(t, b + 1, c),
                       end |-> d + 1])
        ELSE None

\* /^proc\s+([^:\s]+::)?(\w+)\s*{([^}]*)}\s*{/gm tried at offset i.
\* namespace is group 1 without its trailing "::", or empty (falsy, as
\* null is) when group 1 took no part in the match.
ProcRegexAt(t, i) ==
    LET s == SkipIn(t, i + 1, SpaceTokens)
        r == SkipNotIn(t, s, SpaceTokens \cup {"::"})
        withNs == IF r > s /\ CharAt(t, r) = "::" THEN ProcTailAt(t, r + 1) ELSE None
        bare == ProcTailAt(t, s)
    IN  IF ~(AtLineStart(t, i) /\ CharAt(t, i) = "proc" /\ s > i + 1) THEN None
        ELSE IF withNs # None
        THEN Returned([index |-> i, end |-> withNs[1].end, namespace |-> Substring(t, s, r),
                       name |-> withNs[1].name, args |-> withNs[1].args])
        ELSE IF bare # None
        THEN Returned([index |-> i, end |-> bare[1].end, namespace |-> <<>>,
                       name |-> bare[1].name, args |-> bare[1].args])
        ELSE None

\* /proc\s+(\w+)\s*{([^}]*)}\s*{/gm tried at offset i.
NsProcRegexAt(t, i) ==
    LET s == SkipIn(t, i + 1, SpaceTokens)
        tail == ProcTailAt(t, s)
    IN  IF CharAt(t, i) = "proc" /\ s > i + 1 /\ tail # None
        THEN Returned([index |-> i, end |-> tail[1].end,
                       name |-> tail[1].name, args |-> tail[1].args])
        ELSE None

\* /^namespace\s+eval\s+(\w+)(?:\s*{([\s\S]*?)^}|\s+([^{]+))/gm tried at i.
\* brace is the offset of the first "{" of the match (match[0].indexOf('{')
\* added to the index), which is index - 1 when the match holds no "{";
\* content is group 2, or '' when the second alternative matched.
NsRegexAt(t, i) ==
    LET s1 == SkipIn(t, i + 1, SpaceTokens)
        s2 == SkipIn(t, s1 + 1, SpaceTokens)
        w == SkipIn(t, s2, WordTokens)
        b == SkipIn(t, w, SpaceTokens)
        closes == {p \in (b + 1)..(Len(t) - 1) : AtLineStart(t, p) /\ CharAt(t, p) = "}"}
        p1 == CHOOSE p \in closes : \A q \in closes : p <= q
        e3 == SkipNotIn(t, w + 1, {"{"})
    IN  IF ~(/\ AtLineStart(t, i)
             /\ CharAt(t, i) = "namespace"
             /\ s1 > i + 1
             /\ CharAt(t, s1) = "eval"
             /\ s2 > s1 + 1
             /\ w > s2)
        THEN None
        ELSE IF CharAt(t, b) = "{" /\ closes # {}
        THEN Returned([index |-> i, end |-> p1 + 1, name |-> Substring(t, s2, w),
                       brace |-> b,
                       content |-> Substring(t, b + 1, p1)])
        ELSE IF CharAt(t, w) \in SpaceTokens /\ e3 >= w + 2
        THEN Returned([index |-> i, end |-> e3, name |-> Substring(t, s2, w),
                       brace |-> i - 1,
                       content |-> <<>>])
        ELSE None

\* /^set\s+::(\w+)\s+(.+)$/gm tried at offset i.
GlobalVarRegexAt(t, i) ==
    LET s == SkipIn(t, i + 1, SpaceTokens)
        w == SkipIn(t, s + 1, WordTokens)
        v == WsDotPlus(t, w)
    IN  IF /\ AtLineStart(t, i)
           /\ CharAt(t, i) = "set"
           /\ s > i + 1
           /\ CharAt(t, s) = "::"
           /\ w > s + 1
           /\ v # None
        THEN Returned([index |-> i, end |-> v[1].end, name |-> Substring(t, s + 1, w),
                       value |-> Substring(t, v[1].vstart, v[1].end)])
        ELSE None

\* /variable\s+(\w+)(?:\s+(.+))?$/gm tried at offset i.  value is group 2,
\* or empty (falsy, as undefined is) when the optional group took no part.
NsVarRegexAt(t, i) ==
    LET s == SkipIn(t, i + 1, SpaceTokens)
        w == SkipIn(t, s, WordTokens)
        v == WsDotPlus(t, w)
    IN  IF ~(CharAt(t, i) = "variable" /\ s > i + 1 /\ w > s) THEN None
        ELSE IF v # None
        THEN Returned([index |-> i, end |-> v[1].end, name |-> Substring(t, s, w),
                       value |-> Substring(t, v[1].vstart, v[1].end)])
        ELSE IF w = Len(t) \/ CharAt(t, w) = "\n"
        THEN Returned([index |-> i, end |-> w, name |-> Substring(t, s, w), value |-> <<>>])
        ELSE None

\* /set\s+(\w+)\s+(.+)$/gm tried at offset i.
LocalVarRegexAt(t, i) ==
    LET s == SkipIn(t, i + 1, SpaceTokens)
        w == SkipIn(t, s, WordTokens)
        v == WsDotPlus(t, w)
    IN  IF CharAt(t, i) = "set" /\ s > i + 1 /\ w > s /\ v # None
        THEN Returned([index |-> i, end |-> v[1].end, name |-> Substring(t, s, w),
                       value |-> Substring(t, v[1].vstart, v[1].end)])
        ELSE None

\* /array\s+set\s+(\w+)\s+{([^}]*)}/gm tried at offset i.
ArraySetRegexAt(t, i) ==
    LET s1 == SkipIn(t, i + 1, SpaceTokens)
        s2 == SkipIn(t, s1 + 1, SpaceTokens)
        w == SkipIn(t, s2, WordTokens)
        s3 == SkipIn(t, w, SpaceTokens)
        e == SkipNotIn(t, s3 + 1, {"}"})
    IN  IF /\ CharAt(t, i) = "array"
           /\ s1 > i + 1
           /\ CharAt(t, s1) = "set"
           /\ s2 > s1 + 1
           /\ w > s2
           /\ s3 > w
           /\ CharAt(t, s3) = "{"
           /\ CharAt(t, e) = "}"
        THEN Returned([index |-> i, end |-> e + 1, name |-> Substring(t, s2, w)])
        ELSE None

ControlKeywords == {"if", "elseif", "else", "foreach", "for", "while", "switch", "catch"}

\* /\b(if|elseif|else|foreach|for|while|switch|catch)\b[^{]*{.*/gm tried at i.
\* lastBrace is index + match[0].lastIndexOf('{').
ControlRegexAt(t, i) ==
    LET b == SkipNotIn(t, i + 1, {"{"})
        e == SkipNotIn(t, b + 1, {"\n"})
        braces == {k \in b..(e - 1) : CharAt(t, k) = "{"}
    IN  IF /\ CharAt(t, i) \in ControlKeywords
           /\ CharAt(t, i - 1) \notin WordTokens
           /\ CharAt(t, i + 1) \notin WordTokens
           /\ b < Len(t)
        THEN Returned([index |-> i, end |-> e, keyword |-> CharAt(t, i),
                       lastBrace |-> CHOOSE k \in braces : \A j \in braces : j <= k])
        ELSE None

\* ------------------------------------------------------------------ outline
\* The symbol tree is kept as the sequence of the DocumentSymbols in the order
\* they were created; parent is the index of the symbol whose children array
\* the symbol was pushed to, 0 for the top-level array.  An array's order is
\* the order of the indices.

\* new vscode.DocumentSymbol(name, detail, kind, range, selectionRange)
DocumentSymbol(name, detail, kind, range, selectionRange, parent) ==
    [name |-> name, detail |-> detail, kind |-> kind, range |-> range,
     selectionRange |-> selectionRange, parent |-> parent]

\* Longest value shown in full.
MaxValueLen == 20

\* The detail with the comparison moved by one: a value of MaxValueLen
\* characters is cut.
ValueDetailInclusive(value) ==
    <<"value: ">> \o (IF Len(value) >= MaxValueLen
                      THEN Substring(value, 0, MaxValueLen) \o <<".", ".", ".">>
                      ELSE value)

\* `value: ${value.length > 20 ? value.substring(0, 20) + '...' : value}`
ValueDetail(value) ==
    <<"value: ">> \o (IF Len(value) > MaxValueLen
                      THEN Substring(value, 0, MaxValueLen) \o <<".", ".", ".">>
                      ELSE value)

\* args ? `args: ${args}` : ''
ArgsDetail(args) == IF args # <<>> THEN <<"args: ">> \o args ELSE <<>>

\* A test that never finds a child: every match is recorded.
NoChildNamed(nodes, p, name) == FALSE

\* procSymbol.children.some(child => child.name === varName)
HasChildNamed(nodes, p, name) ==
    \E j \in 1..Len(nodes) : nodes[j].parent = p /\ nodes[j].name = name

\* A symbol whose range and selectionRange are the matched text [from, to).
MatchSymbol(t, name, detail, kind, from, to, parent) ==
    LET range == Range(positionAt(t, from), positionAt(t, to))
    IN  DocumentSymbol(name, detail, kind, range, range, parent)

RECURSIVE LocalVarLoop(_, _, _, _, _, _)
\* The first loop of processLocalVariables over the matches ms[k..].
LocalVarLoop(t, ms, k, off, nodes, procIdx) ==
    IF k > Len(ms) THEN nodes
    ELSE LET m == ms[k]
         IN  IF HasChildNamed(nodes, procIdx, m.name)
             THEN LocalVarLoop(t, ms, k + 1, off, nodes, procIdx)
             ELSE LocalVarLoop(t, ms, k + 1, off,
                      Append(nodes, MatchSymbol(t, m.name, ValueDetail(Trim(m.value)),
                                                "Variable", off + m.index, off + m.end,
                                                procIdx)),
                      procIdx)

RECURSIVE ArraySetLoop(_, _, _, _, _, _)
\* The second loop of processLocalVariables.
ArraySetLoop(t, ms, k, off, nodes, procIdx) ==
    IF k > Len(ms) THEN nodes
    ELSE ArraySetLoop(t, ms, k + 1, off,
             Append(nodes, MatchSymbol(t, ms[k].name, <<"array">>, "Array",
                                       off + ms[k].index, off + ms[k].end, procIdx)),
             procIdx)

\* processLocalVariables(document, procBody, procBodyStartOffset, procSymbol)
processLocalVariables(t, procBody, off, nodes, procIdx) ==
    LET n == Len(procBody)
        vars1 == ExecAll([i \in 0..n |-> LocalVarRegexAt(procBody, i)], n, 0)
        arrs == ExecAll([i \in 0..n |-> ArraySetRegexAt(procBody, i)], n, 0)
    IN  ArraySetLoop(t, arrs, 1, off, LocalVarLoop(t, vars1, 1, off, nodes, procIdx), procIdx)

\* The procedure symbol of processProcedures / processNamespaceProcedures for a
\* header matched at `index` whose body brace is at procBodyStart.
ProcSymbol(t, name, args, index, procEndIndex, parent) ==
    LET startPos == positionAt(t, index)
        endPos == IF Truthy(procEndIndex) THEN positionAt(t, procEndIndex + 1)
                  ELSE lineRangeEnd(t, startPos.line)
    IN  DocumentSymbol(name, ArgsDetail(Trim(args)), "Function",
                       Range(startPos, endPos),
                       Range(startPos, lineRangeEnd(t, startPos.line)),
                       parent)

\* One iteration of the procedure loops: the symbol is pushed to `parent`, then
\* its local variables are added when the end of the body was found.
AddProcedure(t, name, args, index, procBodyStart, nodes, parent) ==
    LET procEndIndex == findMatchingBrace(t, procBodyStart)
        withProc == Append(nodes, ProcSymbol(t, name, args, index, procEndIndex, parent))
    IN  IF Truthy(procEndIndex)
        THEN processLocalVariables(t, Substring(t, procBodyStart + 1, procEndIndex),
                                   procBodyStart + 1, withProc, Len(withProc))
        ELSE withProc

RECURSIVE NsProcLoop(_, _, _, _, _, _)
NsProcLoop(t, ms, k, off, nodes, nsIdx) ==
    IF k > Len(ms) THEN nodes
    ELSE NsProcLoop(t, ms, k + 1, off,
             AddProcedure(t, ms[k].name, ms[k].args, off + ms[k].index,
                          off + ms[k].end - 1, nodes, nsIdx),
             nsIdx)

\* processNamespaceProcedures(document, nsContent, nsContentStartOffset, nsSymbol)
processNamespaceProcedures(t, nsContent, off, nodes, nsIdx) ==
    LET n == Len(nsContent)
    IN  NsProcLoop(t, ExecAll([i \in 0..n |-> NsProcRegexAt(nsContent, i)], n, 0),
                   1, off, nodes, nsIdx)

RECURSIVE NsVarLoop(_, _, _, _, _, _)
NsVarLoop(t, ms, k, off, nodes, nsIdx) ==
    IF k > Len(ms) THEN nodes
    ELSE LET value == Trim(ms[k].value)
         IN  NsVarLoop(t, ms, k + 1, off,
                 Append(nodes, MatchSymbol(t, ms[k].name,
                                           IF value # <<>> THEN ValueDetail(value)
                                           ELSE <<"namespace variable">>,
                                           "Variable", off + ms[k].index, off + ms[k].end,
                                           nsIdx)),
                 nsIdx)

\* processNamespaceVariables visiting the matches from the last to the first.
processNamespaceVariablesReversed(t, nsContent, off, nodes, nsIdx) ==
    LET n == Len(nsContent)
        ms == ExecAll([i \in 0..n |-> NsVarRegexAt(nsContent, i)], n, 0)
    IN  NsVarLoop(t, [k \in 1..Len(ms) |-> ms[Len(ms) + 1 - k]], 1, off, nodes, nsIdx)

\* processNamespaceVariables(document, nsContent, nsContentStartOffset, nsSymbol)
processNamespaceVariables(t, nsContent, off, nodes, nsIdx) ==
    LET n == Len(nsContent)
    IN  NsVarLoop(t, ExecAll([i \in 0..n |-> NsVarRegexAt(nsContent, i)], n, 0),
                  1, off, nodes, nsIdx)

\* The namespace symbol of processNamespaces for the match m.
NsSymbol(t, m) ==
    LET startPos == positionAt(t, m.index)
        nsEndMatch == findMatchingBrace(t, m.brace)
        endPos == IF Truthy(nsEndMatch) THEN positionAt(t, nsEndMatch + 1)
                  ELSE lineRangeEnd(t, startPos.line)
    IN  DocumentSymbol(m.name, <<"namespace">>, "Namespace",
                       Range(startPos, endPos),
                       Range(startPos, lineRangeEnd(t, startPos.line)),
                       0)

\* namespaceMap.set(nsName, nsSymbol)
MapSet(map, key, value) ==
    [k \in DOMAIN map \cup {key} |-> IF k = key THEN value ELSE map[k]]

RECURSIVE NsLoop(_, _, _, _)
\* The loop of processNamespaces; st.nodes are the symbols, st.map is namespaceMap.
NsLoop(t, ms, k, st) ==
    IF k > Len(ms) THEN st
    ELSE LET m == ms[k]
             withNs == Append(st.nodes, NsSymbol(t, m))
             nsIdx == Len(withNs)
             withVars == processNamespaceVariables(t, m.content, m.brace + 1, withNs, nsIdx)
             withProcs == processNamespaceProcedures(t, m.content, m.brace + 1, withVars, nsIdx)
         IN  NsLoop(t, ms, k + 1, [nodes |-> withProcs, map |-> MapSet(st.map, m.name, nsIdx)])

\* processNamespaces(document, text, symbols, namespaceMap)
processNamespaces(t, st) ==
    NsLoop(t, ExecAll([i \in 0..Len(t) |-> NsRegexAt(t, i)], Len(t), 0), 1, st)

RECURSIVE ProcLoop(_, _, _, _)
\* The loop of processProcedures.
ProcLoop(t, ms, k, st) ==
    IF k > Len(ms) THEN st
    ELSE LET m == ms[k]
             parent == IF m.namespace # <<>> /\ m.namespace \in DOMAIN st.map
                       THEN st.map[m.namespace] ELSE 0
         IN  ProcLoop(t, ms, k + 1,
                 [nodes |-> AddProcedure(t, m.name, m.args, m.index, m.end - 1,
                                         st.nodes, parent),
                  map |-> st.map])

\* processProcedures(document, text, symbols, namespaceMap)
processProcedures(t, st) ==
    ProcLoop(t, ExecAll([i \in 0..Len(t) |-> ProcRegexAt(t, i)], Len(t), 0), 1, st)

RECURSIVE GlobalVarLoop(_, _, _, _)
GlobalVarLoop(t, ms, k, nodes) ==
    IF k > Len(ms) THEN nodes
    ELSE GlobalVarLoop(t, ms, k + 1,
             Append(nodes, MatchSymbol(t, ms[k].name, ValueDetail(Trim(ms[k].value)),
                                       "Variable", ms[k].index, ms[k].end, 0)))

\* processGlobalVariables(document, text, symbols)
processGlobalVariables(t, nodes) ==
    GlobalVarLoop(t, ExecAll([i \in 0..Len(t) |-> GlobalVarRegexAt(t, i)], Len(t), 0), 1, nodes)

\* The indices of the symbols of the array `parent`, in array order.
ChildrenOf(nodes, parent) == {j \in 1..Len(nodes) : nodes[j].parent = parent}

RECURSIVE findEnclosingSymbol(_, _, _)
\* findEnclosingSymbol(range, symbols) on the array `parent`: the index of the
\* symbol found, 0 for null.  The loop returns at the first symbol of the
\* array whose range contains the range.
findEnclosingSymbol(range, nodes, parent) ==
    LET hits == {j \in ChildrenOf(nodes, parent) : containsRange(nodes[j].range, range)}
        first == CHOOSE j \in hits : \A h \in hits : j <= h
        child == findEnclosingSymbol(range, nodes, first)
    IN  IF hits = {} THEN 0
        ELSE IF child # 0 THEN child ELSE first

RECURSIVE ControlLoop(_, _, _, _)
\* The loop of processControlBlocks.
ControlLoop(t, ms, k, nodes) ==
    IF k > Len(ms) THEN nodes
    ELSE LET m == ms[k]
             closeBracePos == findMatchingBrace(t, m.lastBrace)
             startPos == positionAt(t, m.index)
             endPos == positionAt(t, closeBracePos + 1)
             range == Range(startPos, endPos)
             parent == findEnclosingSymbol(range, nodes, 0)
         IN  IF closeBracePos = Null \/ endPos.line = startPos.line
             THEN ControlLoop(t, ms, k + 1, nodes)
             ELSE ControlLoop(t, ms, k + 1,
                      Append(nodes,
                             DocumentSymbol(<<m.keyword>>, <<m.keyword, " block">>, "Object",
                                            range,
                                            Range(startPos, lineRangeEnd(t, startPos.line)),
                                            parent)))

\* processControlBlocks(document, text, symbols)
processControlBlocks(t, nodes) ==
    ControlLoop(t, ExecAll([i \in 0..Len(t) |-> ControlRegexAt(t, i)], Len(t), 0), 1, nodes)

\* provideDocumentSymbols(document, token)
provideDocumentSymbols(t) ==
    LET ns == processNamespaces(t, [nodes |-> <<>>, map |-> <<>>])
        procs == processProcedures(t, ns)
        globals == processGlobalVariables(t, procs.nodes)
    IN  processControlBlocks(t, globals)

\* --------------------------------------------------------------- definition
\* A location is [uri, range]; uri 0 is the queried document and uri k > 0 is
\* the k-th other file of the workspace.  A query returns NoLocation (null)
\* or <<location>>.

NoLocation == <<>>

\* new vscode.Location(uri, new vscode.Range(startPos, endPos)) for the
\* offsets [from, to) of the text t.
Location(uri, t, from, to) ==
    Returned([uri |-> uri, range |-> Range(positionAt(t, from), positionAt(t, to))])

\* The literal token sequence w stands at offset k of t.
LiteralAt(t, k, w) == k + Len(w) <= Len(t) /\ Substring(t, k, k + Len(w)) = w

\* [\w:]
WordColonTokens == WordTokens \cup {"::"}

\* document.getWordRangeAtPosition(position, /[\w:]+/) for the position at
\* offset p: the offsets <<from, to>> of the run of [\w:] tokens that holds
\* or ends at p, or None.
getWordRangeAtPosition(t, p) ==
    LET q == IF CharAt(t, p) \in WordColonTokens THEN p ELSE p - 1
        starts == {a \in 0..q : \A k \in a..q : CharAt(t, k) \in WordColonTokens}
        from == CHOOSE a \in starts : \A b \in starts : a <= b
    IN  IF q < 0 \/ CharAt(t, q) \notin WordColonTokens THEN None
        ELSE Returned(<<from, SkipIn(t, q, WordColonTokens)>>)

RECURSIVE isVariableReferenceFrom(_, _, _)
\* The loop of isVariableReference from offset i down to the line start.
isVariableReferenceFrom(t, i, lineStart) ==
    IF i < lineStart THEN FALSE
    ELSE IF CharAt(t, i) = "$" THEN TRUE
    ELSE IF CharAt(t, i) \notin WordTokens \cup SpaceTokens \cup {"(", ")"} THEN FALSE
    ELSE isVariableReferenceFrom(t, i - 1, lineStart)

\* isVariableReference(lineText, position.character) for the position at
\* offset p of the document.
isVariableReference(t, p) == isVariableReferenceFrom(t, p - 1, LineStartOf(t, p))

\* new RegExp(`set\\s+${name}\\s+`, 'gm') tried at offset i.
SetRegexAt(t, i, name) ==
    LET s == SkipIn(t, i + 1, SpaceTokens)
        e == s + Len(name)
        e2 == SkipIn(t, e, SpaceTokens)
    IN  IF CharAt(t, i) = "set" /\ s > i + 1 /\ LiteralAt(t, s, name) /\ e2 > e
        THEN Returned([index |-> i, end |-> e2])
        ELSE None

\* new RegExp(`variable\\s+${name}(?:\\s+|$)`, 'gm') tried at offset i.
VariableRegexAt(t, i, name) ==
    LET s == SkipIn(t, i + 1, SpaceTokens)
        e == s + Len(name)
        e2 == SkipIn(t, e, SpaceTokens)
    IN  IF CharAt(t, i) = "variable" /\ s > i + 1 /\ LiteralAt(t, s, name)
           /\ (e2 > e \/ e = Len(t))
        THEN Returned([index |-> i, end |-> e2])
        ELSE None

\* new RegExp(`namespace\\s+eval\\s+${name}\\s*{`, 'gm') tried at offset i.
NsEvalRegexAt(t, i, name) ==
    LET s1 == SkipIn(t, i + 1, SpaceTokens)
        s2 == SkipIn(t, s1 + 1, SpaceTokens)
        b == SkipIn(t, s2 + Len(name), SpaceTokens)
    IN  IF /\ CharAt(t, i) = "namespace"
           /\ s1 > i + 1
           /\ CharAt(t, s1) = "eval"
           /\ s2 > s1 + 1
           /\ LiteralAt(t, s2, name)
           /\ CharAt(t, b) = "{"
        THEN Returned([index |-> i, end |-> b + 1])
        ELSE None

\* new RegExp(`proc\\s+${name}\\s*{`, 'gm') tried at offset i.
ProcNameRegexAt(t, i, name) ==
    LET s == SkipIn(t, i + 1, SpaceTokens)
        b == SkipIn(t, s + Len(name), SpaceTokens)
    IN  IF CharAt(t, i) = "proc" /\ s > i + 1 /\ LiteralAt(t, s, name) /\ CharAt(t, b) = "{"
        THEN Returned([index |-> i, end |-> b + 1])
        ELSE None

\* [\w:]+::[\w:]+ matches the run r of [\w:] tokens down to its end: some
\* "::" of the run has a character before it and one after it.
HasInnerScopeSeparator(r) ==
    \E j \in 1..Len(r) :
        /\ r[j] = "::"
        /\ \/ (j > 1 /\ j < Len(r))
           \/ (j < Len(r) /\ r[j + 1] = "::")

\* {[^}]*}\s*{ tried at offset b; the offset after the match, or Null.
ArgsThenBraceAt(t, b) ==
    LET c == SkipNotIn(t, b + 1, {"}"})
        d == SkipIn(t, c + 1, SpaceTokens)
    IN  IF CharAt(t, b) = "{" /\ CharAt(t, c) = "}" /\ CharAt(t, d) = "{"
        THEN d + 1 ELSE Null

\* /proc\s+(\w+|[\w:]+::[\w:]+)\s*{[^}]*}\s*{/g tried at offset i.
ContainingProcRegexAt(t, i) ==
    LET s == SkipIn(t, i + 1, SpaceTokens)
        w == SkipIn(t, s, WordTokens)
        r == SkipIn(t, s, WordColonTokens)
        simple == IF w > s THEN ArgsThenBraceAt(t, SkipIn(t, w, SpaceTokens)) ELSE Null
        scoped == IF HasInnerScopeSeparator(Substring(t, s, r))
                  THEN ArgsThenBraceAt(t, SkipIn(t, r, SpaceTokens)) ELSE Null
    IN  IF ~(CharAt(t, i) = "proc" /\ s > i + 1) THEN None
        ELSE IF simple # Null THEN Returned([index |-> i, end |-> simple])
        ELSE IF scoped # Null THEN Returned([index |-> i, end |-> scoped])
        ELSE None

RECURSIVE ContainingLoop(_, _, _, _, _)
\* The loop of getContainingProcedureRange; best is bestProcRange (None for
\* null) and pos the position asked for.
ContainingLoop(t, ms, k, pos, best) ==
    IF k > Len(ms) THEN best
    ELSE LET procBodyStart == ms[k].end - 1
             procBodyEnd == findMatchingBrace(t, procBodyStart)
             procRange == Range(positionAt(t, ms[k].index), positionAt(t, procBodyEnd + 1))
         IN  IF /\ Truthy(procBodyEnd)
                /\ containsPosition(procRange, pos)
                /\ \/ best = None
                   \/ /\ isBefore(procRange.end, best[1].end)
                      /\ isAfter(procRange.start, best[1].start)
             THEN ContainingLoop(t, ms, k + 1, pos, Returned(procRange))
             ELSE ContainingLoop(t, ms, k + 1, pos, best)

\* getContainingProcedureRange(document, position): None or <<range>>.
getContainingProcedureRange(t, pos) ==
    ContainingLoop(t, ExecAll([i \in 0..Len(t) |-> ContainingProcRegexAt(t, i)], Len(t), 0),
                   1, pos, None)

\* The lookup of findVariableDefinition inside the containing procedure.
LocalVariableDefinition(t, varBaseName, containing) ==
    LET from == offsetAt(t, containing.start)
        procText == Substring(t, from, offsetAt(t, containing.end))
        n == Len(procText)
        setMatch == ExecFirst([i \in 0..n |-> SetRegexAt(procText, i, varBaseName)], n, 0)
        varMatch == ExecFirst([i \in 0..n |-> VariableRegexAt(procText, i, varBaseName)], n, 0)
    IN  IF setMatch # None
        THEN Location(0, t, from + setMatch[1].index, from + setMatch[1].end + 1)
        ELSE IF varMatch # None
        THEN Location(0, t, from + varMatch[1].index, from + varMatch[1].end)
        ELSE NoLocation

\* The lookup of findVariableDefinition in the whole document.
DocumentVariableDefinition(t, varBaseName) ==
    LET n == Len(t)
        setMatch == ExecFirst([i \in 0..n |-> SetRegexAt(t, i, varBaseName)], n, 0)
        varMatch == ExecFirst([i \in 0..n |-> VariableRegexAt(t, i, varBaseName)], n, 0)
    IN  IF setMatch # None THEN Location(0, t, setMatch[1].index, setMatch[1].end + 1)
        ELSE IF varMatch # None THEN Location(0, t, varMatch[1].index, varMatch[1].end)
        ELSE NoLocation

\* findVariableDefinition(document, varName, position).  The word under the
\* cursor is a run of [\w:] tokens, so it holds no "(" and varBaseName is varName.
findVariableDefinition(t, varName, pos) ==
    LET n == Len(t)
        globalName == Substring(varName, 1, Len(varName))
        globalMatch == ExecFirst([i \in 0..n |-> SetRegexAt(t, i, <<"::">> \o globalName)], n, 0)
        containing == getContainingProcedureRange(t, pos)
        local == IF containing # None
                 THEN LocalVariableDefinition(t, varName, containing[1])
                 ELSE NoLocation
    IN  IF varName[1] = "::" /\ globalMatch # None
        THEN Location(0, t, globalMatch[1].index, globalMatch[1].end + 1)
        ELSE IF local # NoLocation THEN local
        ELSE DocumentVariableDefinition(t, varName)

\* A location from the start of a header match to the end of the block whose
\* opening brace is at `open`: the closing brace if found, else the line's end.
BlockLocation(uri, t, index, open) ==
    LET startPos == positionAt(t, index)
        close == findMatchingBrace(t, open)
        endPos == IF Truthy(close) THEN positionAt(t, close + 1)
                  ELSE lineRangeEnd(t, startPos.line)
    IN  Returned([uri |-> uri, range |-> Range(startPos, endPos)])

\* symbolName.replace(/::/g, '')
RECURSIVE RemoveScopeSeparators(_)
RemoveScopeSeparators(w) ==
    IF w = <<>> THEN <<>>
    ELSE IF w[1] = "::" THEN RemoveScopeSeparators(Tail(w))
    ELSE <<w[1]>> \o RemoveScopeSeparators(Tail(w))

\* new RegExp(`proc\\s+(${clean}|[\\w:]+::${clean})\\s*{`, 'gm') tried at i.
WorkspaceProcRegexAt(t, i, clean) ==
    LET s == SkipIn(t, i + 1, SpaceTokens)
        r == SkipIn(t, s, WordColonTokens)
        bare == SkipIn(t, s + Len(clean), SpaceTokens)
        seps == {j \in (s + 1)..(r - 1) :
                    /\ CharAt(t, j) = "::"
                    /\ LiteralAt(t, j + 1, clean)
                    /\ CharAt(t, SkipIn(t, j + 1 + Len(clean), SpaceTokens)) = "{"}
        j1 == CHOOSE j \in seps : TRUE
    IN  IF ~(CharAt(t, i) = "proc" /\ s > i + 1) THEN None
        ELSE IF LiteralAt(t, s, clean) /\ CharAt(t, bare) = "{"
        THEN Returned([index |-> i, end |-> bare + 1])
        ELSE IF seps # {}
        THEN Returned([index |-> i, end |-> SkipIn(t, j1 + 1 + Len(clean), SpaceTokens) + 1])
        ELSE None

\* One iteration of the loop of searchInWorkspace, on the file `uri` with text t.
SearchFile(uri, t, symbolName) ==
    LET n == Len(t)
        clean == RemoveScopeSeparators(symbolName)
        procMatch == ExecFirst([i \in 0..n |-> WorkspaceProcRegexAt(t, i, clean)], n, 0)
        nsMatch == ExecFirst([i \in 0..n |-> NsEvalRegexAt(t, i, symbolName)], n, 0)
    IN  IF procMatch # None
        THEN BlockLocation(uri, t, procMatch[1].index, procMatch[1].end - 1)
        ELSE IF "::" \notin {symbolName[k] : k \in 1..Len(symbolName)} /\ nsMatch # None
        THEN BlockLocation(uri, t, nsMatch[1].index, nsMatch[1].end - 1)
        ELSE NoLocation

RECURSIVE SearchLoop(_, _, _)
\* The loop of searchInWorkspace over the enumerated files ws[k..], each a
\* record [uri, text].
SearchLoop(ws, k, symbolName) ==
    IF k > Len(ws) THEN NoLocation
    ELSE LET found == SearchFile(ws[k].uri, ws[k].text, symbolName)
         IN  IF found # NoLocation THEN found ELSE SearchLoop(ws, k + 1, symbolName)

\* searchInWorkspace(symbolName) over the files findFiles returned.
searchInWorkspace(ws, symbolName) == SearchLoop(ws, 1, symbolName)

\* The last index of "::" in the word (0 if none): qualifiedName.split('::')
\* gives the namespace before it and the symbol after it.
LastSeparator(w) ==
    LET js == {j \in 1..Len(w) : w[j] = "::"}
    IN  IF js = {} THEN 0 ELSE CHOOSE j \in js : \A k \in js : k <= j

\* How a lookup in the open document ends: with its answer, or with the call
\* searchInWorkspace(symbolName), whose awaits suspend the query.
Resolved(location) == [location |-> location, search |-> None]

Search(symbolName) == [location |-> NoLocation, search |-> Returned(symbolName)]

\* findNamespaceQualifiedDefinition(document, qualifiedName), up to its call
\* of searchInWorkspace.
findNamespaceQualifiedDefinition(t, qualifiedName) ==
    LET sep == LastSeparator(qualifiedName)
        namespace == SubSeq(qualifiedName, 1, sep - 1)
        symbol == SubSeq(qualifiedName, sep + 1, Len(qualifiedName))
        n == Len(t)
        match == ExecFirst([i \in 0..n |-> NsEvalRegexAt(t, i, namespace)], n, 0)
        nsBodyStart == match[1].end - 1
        nsBodyEnd == findMatchingBrace(t, nsBodyStart)
        nsBody == Substring(t, nsBodyStart + 1, nsBodyEnd)
        m == Len(nsBody)
        procMatch == ExecFirst([i \in 0..m |-> ProcNameRegexAt(nsBody, i, symbol)], m, 0)
        varMatch == ExecFirst([i \in 0..m |-> VariableRegexAt(nsBody, i, symbol)], m, 0)
    IN  IF match # None /\ Truthy(nsBodyEnd) /\ procMatch # None
        THEN Resolved(BlockLocation(0, t, nsBodyStart + 1 + procMatch[1].index,
                                    nsBodyStart + 1 + procMatch[1].end - 1))
        ELSE IF match # None /\ Truthy(nsBodyEnd) /\ varMatch # None
        THEN Resolved(Location(0, t, nsBodyStart + 1 + varMatch[1].index,
                               nsBodyStart + 1 + varMatch[1].end))
        ELSE Search(qualifiedName)

\* findProcedureDefinition(document, procName)
findProcedureDefinition(t, procName) ==
    LET match == ExecFirst([i \in 0..Len(t) |-> ProcNameRegexAt(t, i, procName)], Len(t), 0)
    IN  IF match # None THEN BlockLocation(0, t, match[1].index, match[1].end - 1)
        ELSE NoLocation

\* findNamespaceDefinition(document, nsName)
findNamespaceDefinition(t, nsName) ==
    LET match == ExecFirst([i \in 0..Len(t) |-> NsEvalRegexAt(t, i, nsName)], Len(t), 0)
    IN  IF match # None THEN BlockLocation(0, t, match[1].index, match[1].end - 1)
        ELSE NoLocation

\* provideDefinition(document, position, token) for the position at offset p,
\* up to its call of searchInWorkspace.  The token is never read.
provideDefinition(t, p) ==
    LET wordRange == getWordRangeAtPosition(t, p)
        word == Substring(t, wordRange[1][1], wordRange[1][2])
        procLocation == findProcedureDefinition(t, word)
        nsLocation == findNamespaceDefinition(t, word)
    IN  IF wordRange = None THEN Resolved(NoLocation)
        ELSE IF isVariableReference(t, p)
        THEN Resolved(findVariableDefinition(t, word, positionAt(t, p)))
        ELSE IF "::" \in {word[k] : k \in 1..Len(word)}
        THEN findNamespaceQualifiedDefinition(t, word)
        ELSE IF procLocation # NoLocation THEN Resolved(procLocation)
        ELSE IF nsLocation # NoLocation THEN Resolved(nsLocation)
        ELSE Search(word)

\* -------------------------------------------------------------------- hover
\* new vscode.Hover(contents): the MarkdownStrings of the hover, each the
\* token sequence of its text without the backticks of its code spans; None
\* is null.  The hover provider's copies of
\* isVariableReference, getContainingProcedureRange and findMatchingBrace
\* are the definition provider's, statement for statement.
Hover(contents) == Returned(contents)

\* text.lastIndexOf('\n', from): -1 when there is none; a negative from
\* counts as 0.
LastLineBreak(t, from) ==
    LET ks == {k \in 0..Min(Max(from, 0), Len(t) - 1) : CharAt(t, k) = "\n"}
    IN  IF ks = {} THEN 0 - 1 ELSE CHOOSE k \in ks : \A j \in ks : j <= k

\* text.indexOf(w): -1 when w does not occur.
IndexOf(t, w) ==
    LET ks == {k \in 0..Len(t) : LiteralAt(t, k, w)}
    IN  IF ks = {} THEN 0 - 1 ELSE CHOOSE k \in ks : \A j \in ks : k <= j

RECURSIVE Join(_, _)
\* parts.join(sep)
Join(parts, sep) ==
    IF parts = <<>> THEN <<>>
    ELSE IF Len(parts) = 1 THEN parts[1]
    ELSE parts[1] \o sep \o Join(Tail(parts), sep)

RECURSIVE Split(_)
\* v.split(/\s+/) for a trimmed, non-empty v.
Split(v) ==
    LET w == SkipNotIn(v, 0, SpaceTokens)
        rest == Substring(v, SkipIn(v, w, SpaceTokens), Len(v))
    IN  IF rest = <<>> THEN <<Substring(v, 0, w)>>
        ELSE <<Substring(v, 0, w)>> \o Split(rest)

RECURSIVE DocCommentLoop(_, _, _)
\* The loop of extractDocComment from currentPos; comments is the array so far.
DocCommentLoop(t, currentPos, comments) ==
    LET prevLineEnd == LastLineBreak(t, currentPos)
        line == Trim(Substring(t, prevLineEnd + 1, currentPos + 1))
    IN  IF currentPos < 0 \/ prevLineEnd = 0 - 1 THEN comments
        ELSE IF line # <<>> /\ line[1] = "#"
        THEN DocCommentLoop(t, prevLineEnd - 1, <<Trim(Tail(line))>> \o comments)
        ELSE IF line # <<>> THEN comments
        ELSE DocCommentLoop(t, prevLineEnd - 1, comments)

\* extractDocComment(text, symbolPos)
extractDocComment(t, symbolPos) ==
    LET lineStartPos == LastLineBreak(t, symbolPos - 1)
    IN  IF lineStartPos = 0 - 1 THEN <<>>
        ELSE Join(DocCommentLoop(t, lineStartPos - 1, <<>>), <<"\n">>)

\* extractValueFromSetCommand(setCommand)
extractValueFromSetCommand(setCommand) ==
    LET parts == IF Trim(setCommand) = <<>> THEN <<>> ELSE Split(Trim(setCommand))
    IN  IF Len(parts) >= 3 THEN Join(SubSeq(parts, 3, Len(parts)), <<" ">>) ELSE <<>>

\* new RegExp(`proc\\s+${name}\\s*{([^}]*)}`) tried at offset i.
ProcArgsRegexAt(t, i, name) ==
    LET s == SkipIn(t, i + 1, SpaceTokens)
        b == SkipIn(t, s + Len(name), SpaceTokens)
        c == SkipNotIn(t, b + 1, {"}"})
    IN  IF /\ CharAt(t, i) = "proc"
           /\ s > i + 1
           /\ LiteralAt(t, s, name)
           /\ CharAt(t, b) = "{"
           /\ CharAt(t, c) = "}"
        THEN Returned([index |-> i, end |-> c + 1, args |-> Substring(t, b + 1, c)])
        ELSE None

\* new RegExp(`${keyword}\\s+${name}\\s+([^\\n]+)`, 'm') tried at offset i,
\* for the keyword `set`; value is group 1.
SetValueRegexAt(t, i, name) ==
    LET s == SkipIn(t, i + 1, SpaceTokens)
        v == WsDotPlus(t, s + Len(name))
    IN  IF CharAt(t, i) = "set" /\ s > i + 1 /\ LiteralAt(t, s, name) /\ v # None
        THEN Returned([index |-> i, end |-> v[1].end,
                       value |-> Substring(t, v[1].vstart, v[1].end)])
        ELSE None

\* new RegExp(`variable\\s+${name}(?:\\s+([^\\n]+))?`) tried at offset i;
\* value is group 1, or empty (falsy, as undefined is).
VariableValueRegexAt(t, i, name) ==
    LET s == SkipIn(t, i + 1, SpaceTokens)
        v == WsDotPlus(t, s + Len(name))
    IN  IF ~(CharAt(t, i) = "variable" /\ s > i + 1 /\ LiteralAt(t, s, name)) THEN None
        ELSE IF v # None
        THEN Returned([index |-> i, end |-> v[1].end,
                       value |-> Substring(t, v[1].vstart, v[1].end)])
        ELSE Returned([index |-> i, end |-> s + Len(name), value |-> <<>>])

\* new RegExp(`namespace\\s+eval\\s+${name}`) tried at offset i.
NsNameRegexAt(t, i, name) ==
    LET s1 == SkipIn(t, i + 1, SpaceTokens)
        s2 == SkipIn(t, s1 + 1, SpaceTokens)
    IN  IF /\ CharAt(t, i) = "namespace"
           /\ s1 > i + 1
           /\ CharAt(t, s1) = "eval"
           /\ s2 > s1 + 1
           /\ LiteralAt(t, s2, name)
        THEN Returned([index |-> i, end |-> s2 + Len(name)])
        ELSE None

\* The hover provider's findVariableDefinition(document, varName, isGlobal):
\* the offset its location starts at, or Null.
hoverFindVariableDefinition(t, varName, isGlobal) ==
    LET n == Len(t)
        globalMatch == ExecFirst([i \in 0..n |-> SetRegexAt(t, i, <<"::">> \o varName)], n, 0)
        match == ExecFirst([i \in 0..n |->
                               IF SetRegexAt(t, i, varName) # None
                               THEN SetRegexAt(t, i, varName)
                               ELSE VariableRegexAt(t, i, varName)], n, 0)
    IN  IF isGlobal THEN (IF globalMatch # None THEN globalMatch[1].index ELSE Null)
        ELSE IF match # None THEN match[1].index
        ELSE Null

\* document.lineAt(document.positionAt(off).line).text
LineTextAt(t, off) == Substring(t, LineStartOf(t, off), LineEndOf(t, off))

\* getVariableHover(document, varName, position).  The word under the cursor
\* is a run of [\w:] tokens, so it holds no "(" and varBaseName is varName.
getVariableHover(t, varName, pos) ==
    LET globalName == Substring(varName, 1, Len(varName))
        globalDef == hoverFindVariableDefinition(t, globalName, TRUE)
        containing == getContainingProcedureRange(t, pos)
        procText == Substring(t, offsetAt(t, containing[1].start),
                              offsetAt(t, containing[1].end))
        m == Len(procText)
        variableMatch == ExecFirst([i \in 0..m |-> VariableRegexAt(procText, i, varName)], m, 0)
        setMatch == ExecFirst([i \in 0..m |-> SetValueRegexAt(procText, i, varName)], m, 0)
        defLocation == hoverFindVariableDefinition(t, varName, FALSE)
        defLine == LineTextAt(t, defLocation)
    IN  IF varName[1] = "::" /\ globalDef # Null
        THEN Hover(<< <<"**Global Variable**: ">> \o globalName,
                      <<"**Value**: ">>
                          \o extractValueFromSetCommand(LineTextAt(t, globalDef))
                          >>)
        ELSE IF containing # None /\ variableMatch # None
        THEN Hover(<< <<"**Namespace Variable**: ">> \o varName,
                      <<"Imported into current procedure scope">> >>)
        ELSE IF containing # None /\ setMatch # None
        THEN Hover(<< <<"**Local Variable**: ">> \o varName,
                      <<"**Value**: ">> \o Trim(setMatch[1].value) >>)
        ELSE IF defLocation # Null /\ IndexOf(defLine, <<"set", " ">>) # 0 - 1
        THEN Hover(<< <<"**Variable**: ">> \o varName,
                      <<"**Value**: ">> \o extractValueFromSetCommand(defLine) >>)
        ELSE IF defLocation # Null /\ IndexOf(defLine, <<"variable", " ">>) # 0 - 1
        THEN Hover(<< <<"**Namespace Variable**: ">> \o varName >>)
        ELSE None

\* getNamespaceText(document, namespace): None for null.
getNamespaceText(t, namespace) ==
    LET match == ExecFirst([i \in 0..Len(t) |-> NsEvalRegexAt(t, i, namespace)], Len(t), 0)
        nsBodyStart == match[1].end - 1
        nsBodyEnd == findMatchingBrace(t, nsBodyStart)
    IN  IF match # None /\ Truthy(nsBodyEnd)
        THEN Returned(Substring(t, nsBodyStart + 1, nsBodyEnd))
        ELSE None

\* getNamespacedSymbolHover(document, qualifiedName); an empty nsText is falsy.
getNamespacedSymbolHover(t, qualifiedName) ==
    LET sep == LastSeparator(qualifiedName)
        namespace == SubSeq(qualifiedName, 1, sep - 1)
        symbol == SubSeq(qualifiedName, sep + 1, Len(qualifiedName))
        nsText == getNamespaceText(t, namespace)
        m == Len(nsText[1])
        procMatch == ExecFirst([i \in 0..m |-> ProcArgsRegexAt(nsText[1], i, symbol)], m, 0)
        varMatch == ExecFirst([i \in 0..m |-> VariableValueRegexAt(nsText[1], i, symbol)], m, 0)
    IN  IF nsText = None \/ nsText = Returned(<<>>) THEN None
        ELSE IF procMatch # None
        THEN Hover(<< <<"**Procedure**: ">> \o qualifiedName,
                      <<"**Arguments**: ">> \o Trim(procMatch[1].args),
                      extractDocComment(nsText[1],
                                        IndexOf(nsText[1], <<"proc", " ">> \o symbol)) >>)
        ELSE IF varMatch # None
        THEN Hover(<< <<"**Namespace Variable**: ">> \o qualifiedName,
                      IF Trim(varMatch[1].value) # <<>>
                      THEN <<"**Value**: ">> \o Trim(varMatch[1].value)
                      ELSE <<>> >>)
        ELSE None

\* getProcedureHover(document, procName)
getProcedureHover(t, procName) ==
    LET match == ExecFirst([i \in 0..Len(t) |-> ProcArgsRegexAt(t, i, procName)], Len(t), 0)
    IN  IF match # None
        THEN Hover(<< <<"**Procedure**: ">> \o procName,
                      <<"**Arguments**: ">> \o Trim(match[1].args),
                      extractDocComment(t, IndexOf(t, <<"proc", " ">> \o procName)) >>)
        ELSE None

\* getNamespaceHover(document, nsName)
getNamespaceHover(t, nsName) ==
    IF ExecFirst([i \in 0..Len(t) |-> NsNameRegexAt(t, i, nsName)], Len(t), 0) # None
    THEN Hover(<< <<"**Namespace**: ">> \o nsName >>)
    ELSE None

\* provideHover(document, position, token) for the position at offset p.
provideHover(t, p) ==
    LET wordRange == getWordRangeAtPosition(t, p)
        word == Substring(t, wordRange[1][1], wordRange[1][2])
    IN  IF wordRange = None THEN None
        ELSE IF isVariableReference(t, p) THEN getVariableHover(t, word, positionAt(t, p))
        ELSE IF "::" \in {word[k] : k \in 1..Len(word)} THEN getNamespacedSymbolHover(t, word)
        ELSE IF getProcedureHover(t, word) # None THEN getProcedureHover(t, word)
        ELSE getNamespaceHover(t, word)

\* ------------------------------------------------------------------ folding

BlockKeywords == {"proc", "namespace", "if", "while", "for", "foreach", "switch", "catch"}

\* /\b(proc|namespace|if|while|for|foreach|switch|catch)\b[^{]*{/g tried at i.
BlockRegexAt(t, i) ==
    LET b == SkipNotIn(t, i + 1, {"{"})
    IN  IF /\ CharAt(t, i) \in BlockKeywords
           /\ CharAt(t, i - 1) \notin WordTokens
           /\ CharAt(t, i + 1) \notin WordTokens
           /\ b < Len(t)
        THEN Returned([index |-> i, end |-> b + 1])
        ELSE None

\* /[\s;]*[^#\n\r]*{?/g tried at offset i: the standalone-block pattern with
\* every part optional, which matches the empty string where nothing fits.
StandaloneBlockRegexAtLoose(t, i) ==
    LET s == SkipIn(t, Min(i, Len(t)), SpaceTokens \cup {";"})
    IN  Returned([index |-> i, end |-> SkipNotIn(t, s, {"#", "\n"})])

\* /[\s;][^#\n\r]*{/g tried at offset i: the greedy class runs to the end of
\* the line or to a "#" and gives back to the last "{" of that run.
StandaloneBlockRegexAt(t, i) ==
    LET r == SkipNotIn(t, i + 1, {"#", "\n"})
        braces == {k \in (i + 1)..(r - 1) : CharAt(t, k) = "{"}
    IN  IF CharAt(t, i) \in SpaceTokens \cup {";"} /\ braces # {}
        THEN Returned([index |-> i,
                       end |-> (CHOOSE k \in braces : \A j \in braces : j <= k) + 1])
        ELSE None

RECURSIVE BraceBlockLoop(_, _, _, _, _)
\* A loop of findBraceBlocks over the matches ms[k..]: the first loop, or the
\* second (standalone), which skips the braces of comment lines.
BraceBlockLoop(t, ms, k, standalone, ranges) ==
    IF k > Len(ms) THEN ranges
    ELSE LET openBracePos == ms[k].end - 1
             lineStart == LastLineBreak(t, openBracePos)
             lineContent == Trim(Substring(t, lineStart + 1, openBracePos))
             closeBracePos == findMatchingBrace(t, openBracePos)
             startLine == positionAt(t, openBracePos).line
             endLine == positionAt(t, closeBracePos).line
         IN  IF standalone /\ lineContent # <<>> /\ lineContent[1] = "#"
             THEN BraceBlockLoop(t, ms, k + 1, standalone, ranges)
             ELSE IF closeBracePos # Null /\ endLine > startLine
             THEN BraceBlockLoop(t, ms, k + 1, standalone,
                                 Append(ranges, [start |-> startLine, end |-> endLine]))
             ELSE BraceBlockLoop(t, ms, k + 1, standalone, ranges)

\* findBraceBlocks(document, text, ranges); a FoldingRange is [start, end].
findBraceBlocks(t, ranges) ==
    LET n == Len(t)
        blocks == ExecAll([i \in 0..n |-> BlockRegexAt(t, i)], n, 0)
        standalone == ExecAll([i \in 0..n |-> StandaloneBlockRegexAt(t, i)], n, 0)
    IN  BraceBlockLoop(t, standalone, 1, TRUE, BraceBlockLoop(t, blocks, 1, FALSE, ranges))

\* provideFoldingRanges(document, context, token)
provideFoldingRanges(t) == findBraceBlocks(t, <<>>)

\* -------------------------------------------------------------------- loops
\* A loop of a query as it runs: [loop, subject, cursor, braceCount, low,
\* steps, done].  subject is the string the loop scans; cursor is the loop's
\* own position in it (a pattern's lastIndex, pos, currentPos, i); low is the
\* least offset a backward loop may visit; steps counts the evaluations of
\* the loop's condition.

\* The while ((match = re.exec(subject)) !== null) loops, by pattern.
PatternLoops ==
    {"nsRegex", "procRegex", "nsProcRegex", "globalVarRegex", "nsVarRegex",
     "localVarRegex", "arraySetRegex", "controlRegex", "containingProcRegex",
     "blockRegex", "standaloneBlockRegex"}

\* The pattern of the loop tried at offset i of the subject t.
PatternAt(loop, t, i) ==
    CASE loop = "nsRegex" -> NsRegexAt(t, i)
      [] loop = "procRegex" -> ProcRegexAt(t, i)
      [] loop = "nsProcRegex" -> NsProcRegexAt(t, i)
      [] loop = "globalVarRegex" -> GlobalVarRegexAt(t, i)
      [] loop = "nsVarRegex" -> NsVarRegexAt(t, i)
      [] loop = "localVarRegex" -> LocalVarRegexAt(t, i)
      [] loop = "arraySetRegex" -> ArraySetRegexAt(t, i)
      [] loop = "controlRegex" -> ControlRegexAt(t, i)
      [] loop = "containingProcRegex" -> ContainingProcRegexAt(t, i)
      [] loop = "blockRegex" -> BlockRegexAt(t, i)
      [] loop = "standaloneBlockRegex" -> StandaloneBlockRegexAt(t, i)

\* The elements of a sequence.
Elements(ms) == {ms[k] : k \in 1..Len(ms)}

\* The nsContent strings processNamespaces passes on for the text t.
NamespaceContents(t) ==
    {m.content : m \in Elements(ExecAll([i \in 0..Len(t) |-> NsRegexAt(t, i)], Len(t), 0))}

\* The procBody strings the procedure loops pass to processLocalVariables:
\* the bodies, when their end is found, of the procedures of the text and of
\* the procedures of each namespace content.
ProcedureBodies(t) ==
    LET top == {m.end - 1 :
                   m \in Elements(ExecAll([i \in 0..Len(t) |-> ProcRegexAt(t, i)], Len(t), 0))}
        inner(m) == {m.brace + 1 + pm.end - 1 :
                        pm \in Elements(ExecAll([i \in 0..Len(m.content) |->
                                                    NsProcRegexAt(m.content, i)],
                                                Len(m.content), 0))}
        nested == UNION {inner(m) :
                            m \in Elements(ExecAll([i \in 0..Len(t) |-> NsRegexAt(t, i)],
                                                   Len(t), 0))}
    IN  {Substring(t, o + 1, findMatchingBrace(t, o)) :
            o \in {b \in top \cup nested : Truthy(findMatchingBrace(t, b))}}

\* The strings the pattern loop scans when the queries run on the text t.
Subjects(loop, t) ==
    IF loop \in {"nsProcRegex", "nsVarRegex"} THEN NamespaceContents(t)
    ELSE IF loop \in {"localVarRegex", "arraySetRegex"} THEN ProcedureBodies(t)
    ELSE {t}

\* A loop about to evaluate its condition for the first time.
Loop(loop, subject, cursor, braceCount, low) ==
    [loop |-> loop, subject |-> subject, cursor |-> cursor, braceCount |-> braceCount,
     low |-> low, steps |-> 0, done |-> FALSE]

\* One evaluation of while ((match = re.exec(subject)) !== null): a match
\* leaves lastIndex at its end; a failed exec resets lastIndex and ends the loop.
ExecIteration(s) ==
    LET n == Len(s.subject)
        match == ExecFirst([i \in 0..n |-> PatternAt(s.loop, s.subject, i)], n, s.cursor)
    IN  IF match = None THEN [s EXCEPT !.cursor = 0, !.done = TRUE]
        ELSE [s EXCEPT !.cursor = match[1].end]

\* One evaluation of while (pos < text.length && braceCount > 0) of
\* findMatchingBrace, with the body when the condition holds.
BraceIteration(s) ==
    IF s.cursor < Len(s.subject) /\ s.braceCount > 0
    THEN LET char == CharAt(s.subject, s.cursor)
         IN  [s EXCEPT !.cursor = @ + 1,
                       !.braceCount = IF char = "{" THEN @ + 1
                                      ELSE IF char = "}" THEN @ - 1
                                      ELSE @]
    ELSE [s EXCEPT !.done = TRUE]

\* One evaluation of while (currentPos >= 0) of extractDocComment, with the
\* body when the condition holds.
DocCommentIteration(s) ==
    LET prevLineEnd == LastLineBreak(s.subject, s.cursor)
        line == Trim(Substring(s.subject, prevLineEnd + 1, s.cursor + 1))
    IN  IF s.cursor < 0 \/ prevLineEnd < 0 THEN [s EXCEPT !.done = TRUE]
        ELSE IF line # <<>> /\ line[1] # "#" THEN [s EXCEPT !.done = TRUE]
        ELSE [s EXCEPT !.cursor = prevLineEnd - 1]

\* One evaluation of for (let i = charPos - 1; i >= 0; i--) of
\* isVariableReference, with the body when the condition holds; low is the
\* offset of lineText[0].
VariableReferenceIteration(s) ==
    IF s.cursor < s.low THEN [s EXCEPT !.done = TRUE]
    ELSE IF CharAt(s.subject, s.cursor) = "$" THEN [s EXCEPT !.done = TRUE]
    ELSE IF CharAt(s.subject, s.cursor) \notin WordTokens \cup SpaceTokens \cup {"(", ")"}
    THEN [s EXCEPT !.done = TRUE]
    ELSE [s EXCEPT !.cursor = @ - 1]

\* ------------------------------------------------------------------ bounds

\* Longest text of the brace-matcher specification.
MaxBraceLen == 6

BraceAlphabet == {<<"{">>, <<"}">>, <<"x">>}

\* Most lines of a document of the outline specification.
MaxOutlineLines == 5

\* The lines the outline specification builds documents from.
OutlineLines ==
    { <<"namespace", " ", "eval", " ", "NS", " ", "{", "\n">>,
      <<"proc", " ", "f", " ", "{", "a", "}", " ", "{", "\n">>,
      <<"}", "\n">>,
      <<" ", "variable", " ", "x", " ", "5", "\n">>,
      <<" ", "set", " ", "y", " ", "1", "\n">>,
      <<"proc", " ", "NS", "::", "g", " ", "{", "}", " ", "{", "}", " ", "x", "\n">>,
      <<"proc", " ", "h", " ", "{", "a", " ", "{", "b", "}", "}", " ", "{", "\n">> }

\* Most snippets of a document of the definition specification.
MaxSnippets == 3

\* The snippets the definition specification builds documents from: a global
\* variable, a procedure with a local variable and a reference to it, the
\* same with a default-valued parameter, a namespace with a variable and a
\* procedure, an empty namespace block, and two lines that call NS::leaf.
DefinitionSnippets ==
    { <<"set", " ", "x", " ", "5", "\n">>,
      <<"proc", " ", "leaf", " ", "{", "a", "}", " ", "{", "\n",
        " ", "set", " ", "x", " ", "1", "\n",
        " ", "puts", " ", "$", "x", "\n",
        "}", "\n">>,
      <<"proc", " ", "h", " ", "{", "a", " ", "{", "b", "}", "}", " ", "{", "\n",
        " ", "set", " ", "x", " ", "1", "\n",
        " ", "puts", " ", "$", "x", "\n",
        "}", "\n">>,
      <<"namespace", " ", "eval", " ", "NS", " ", "{", "\n",
        " ", "variable", " ", "x", "\n",
        " ", "proc", " ", "leaf", " ", "{", "a", "}", " ", "{", "\n",
        " ", "set", " ", "x", " ", "1", "\n",
        " ", "puts", " ", "$", "x", "\n",
        " ", "}", "\n",
        "}", "\n">>,
      <<"namespace", " ", "eval", " ", "NS", " ", "{", "\n", "}", "\n">>,
      <<"after", " ", "$", "x", " ", "NS", "::", "leaf", "\n">>,
      <<"NS", "::", "leaf", " ", "$", "x", "\n">> }

\* The texts made of at most k snippets.
RECURSIVE SnippetTexts(_)
SnippetTexts(k) ==
    IF k = 0 THEN {<<>>}
    ELSE SnippetTexts(k - 1)
         \cup {d \o f : d \in SnippetTexts(k - 1), f \in DefinitionSnippets}

DefinitionDocuments == SnippetTexts(MaxSnippets)

\* Most other files of the workspace.
MaxFiles == 1

\* The texts a file of the workspace may hold.
WorkspaceTexts ==
    { <<"proc", " ", "leaf", " ", "{", "a", "}", " ", "{", "\n", "}", "\n",
        "proc", " ", "NS", "::", "leaf", " ", "{", "a", "}", " ", "{", "\n", "}", "\n">> }

\* The texts made of at most k snippets of F.
RECURSIVE Concatenations(_, _)
Concatenations(F, k) ==
    IF k = 0 THEN {<<>>}
    ELSE Concatenations(F, k - 1) \cup {d \o f : d \in Concatenations(F, k - 1), f \in F}

\* Most snippets of a document of the workspace-search specification.
MaxSearchSnippets == 2

\* The snippets the workspace-search specification builds documents from: a
\* call of leaf followed by a `$y` that nothing declares, a call of NS::leaf,
\* a procedure, a namespace and a variable all named leaf, a namespace NS
\* with a procedure leaf, and a call of leaf after a `$y`.
SearchSnippets ==
    { <<"leaf", " ", "$", "y", "\n">>,
      <<"NS", "::", "leaf", "\n">>,
      <<"proc", " ", "leaf", " ", "{", "a", "}", " ", "{", "\n", "}", "\n">>,
      <<"namespace", " ", "eval", " ", "leaf", " ", "{", "\n", "}", "\n">>,
      <<"set", " ", "leaf", " ", "1", "\n">>,
      <<"namespace", " ", "eval", " ", "NS", " ", "{", "\n",
        " ", "proc", " ", "leaf", " ", "{", "a", "}", " ", "{", "\n",
        " ", "}", "\n",
        "}", "\n">>,
      <<"after", " ", "$", "y", " ", "leaf", "\n">> }

SearchDocuments == Concatenations(SearchSnippets, MaxSearchSnippets)

\* Most other files of the workspace in the workspace-search specification.
MaxSearchFiles == 2

\* The texts a file of the workspace may hold in that specification.
SearchTexts ==
    { <<"proc", " ", "NS", "::", "leaf", " ", "{", "a", "}", " ", "{", "\n", "}", "\n">>,
      <<"namespace", " ", "eval", " ", "leaf", " ", "{", "\n", "}", "\n",
        "proc", " ", "leaf", " ", "{", "a", "}", " ", "{", "\n", "}", "\n">>,
      <<"set", " ", "y", " ", "1", "\n">> }

\* Most lines of a document of the scope specification.
MaxScopeLines == 5

\* The lines the scope specification builds documents from.
ScopeLines ==
    { <<"namespace", " ", "eval", " ", "NS", " ", "{", "\n">>,
      <<"proc", " ", "f", " ", "{", "a", "}", " ", "{", "\n">>,
      <<"$", "x", "\n">>,
      <<"}", "\n">> }

\* Most lines of a document of the loop specification.
MaxLoopLines == 3

\* The lines the loop specification builds documents from; braces are left
\* open or closed too often as the lines fall.
LoopLines ==
    { <<"namespace", " ", "eval", " ", "NS", " ", "{", "\n">>,
      <<"proc", " ", "f", " ", "{", "a", "}", " ", "{", "\n">>,
      <<" ", "set", " ", "x", " ", "1", "\n">>,
      <<"#", " ", "x", "\n">>,
      <<"if", " ", "{", "$", "x", "}", " ", "{", "\n">>,
      <<"}", "\n">> }

\* Most lines of a document of the nesting specification.
MaxNestingLines == 6

\* The lines the nesting specification builds documents from: procedures at
\* the line start and indented, a control block, a namespace and the closing
\* brace, so that procedures and control blocks fall inside one another.
NestingLines ==
    { <<"namespace", " ", "eval", " ", "NS", " ", "{", "\n">>,
      <<"proc", " ", "g", " ", "{", "}", " ", "{", "\n">>,
      <<" ", "proc", " ", "h", " ", "{", "}", " ", "{", "\n">>,
      <<" ", "if", " ", "{", "$", "x", "}", " ", "{", "\n">>,
      <<"}", "\n">> }

\* Most lines of a document of the local-variable specification.
MaxLocalLines == 4

\* The lines the local-variable specification builds documents from: a
\* procedure header, assignments that repeat a name with different values, an
\* array declaration and the closing brace.
LocalLines ==
    { <<"proc", " ", "f", " ", "{", "a", "}", " ", "{", "\n">>,
      <<" ", "set", " ", "x", " ", "1", "\n">>,
      <<" ", "set", " ", "x", " ", "5", "\n">>,
      <<" ", "set", " ", "y", " ", "1", "\n">>,
      <<" ", "array", " ", "set", " ", "M", " ", "{", "b", " ", "1", "}", "\n">>,
      <<"}", "\n">> }

\* Most characters of a value of the value specification.
MaxValueChars == 24

\* The statements the value specification puts a value in: a global `set`,
\* a namespace `variable` and a local `set`, each as the text before and
\* after the value.
ValueContexts ==
    { [before |-> <<"set", " ", "::", "x", " ">>,
       after |-> <<"\n">>],
      [before |-> <<"namespace", " ", "eval", " ", "NS", " ", "{", "\n",
                    " ", "variable", " ", "x", " ">>,
       after |-> <<"\n", "}", "\n">>],
      [before |-> <<"proc", " ", "f", " ", "{", "a", "}", " ", "{", "\n",
                    " ", "set", " ", "x", " ">>,
       after |-> <<"\n", "}", "\n">>] }

\* The values of up to MaxValueChars characters: digits, with or without a
\* blank after the first one.
Values ==
    {[k \in 1..n |-> IF k = 2 /\ blank THEN " " ELSE "1"] :
        n \in 1..MaxValueChars, blank \in {FALSE, TRUE}}

\* Most snippets of a document of the hover specification.
MaxHoverSnippets == 4

\* The snippets the hover specification builds documents from: a comment
\* line, a blank line, a procedure header, a local assignment, a namespace
\* variable import, and a line with a `$x` reference followed by the bare
\* word f, closing the procedure.
HoverSnippets ==
    { <<"#", " ", "x", "\n">>,
      <<"\n">>,
      <<"proc", " ", "f", " ", "{", "a", "}", " ", "{", "\n">>,
      <<" ", "set", " ", "x", " ", "1", "\n">>,
      <<" ", "variable", " ", "x", "\n">>,
      <<" ", "after", " ", "$", "x", " ", "f", "\n", "}", "\n">> }

HoverDocuments == Concatenations(HoverSnippets, MaxHoverSnippets)

\* Most lines of a document of the order specification.
MaxOrderLines == 4

\* The lines the order specification builds documents from: a namespace, a
\* namespace variable, a procedure, two local variables, a global variable
\* and the closing brace.
OrderLines ==
    { <<"namespace", " ", "eval", " ", "NS", " ", "{", "\n">>,
      <<" ", "variable", " ", "x", " ", "5", "\n">>,
      <<"proc", " ", "f", " ", "{", "a", "}", " ", "{", "\n">>,
      <<" ", "set", " ", "x", " ", "1", "\n">>,
      <<" ", "set", " ", "y", " ", "1", "\n">>,
      <<"set", " ", "::", "y", " ", "1", "\n">>,
      <<"}", "\n">> }

\* Most lines of a document of the folding specification.
MaxFoldingLines == 4

\* The lines the folding specification builds documents from: the headers
\* of a namespace, a procedure and a control block, a control block whose
\* body starts on the header's line with a braced word, a comment with a
\* brace, and the closing brace.
FoldingLines ==
    { <<"namespace", " ", "eval", " ", "NS", " ", "{", "\n">>,
      <<"proc", " ", "f", " ", "{", "a", "}", " ", "{", "\n">>,
      <<" ", "if", " ", "{", "$", "x", "}", " ", "{", "\n">>,
      <<" ", "if", " ", "{", "$", "x", "}", " ", "{", " ", "puts", " ", "{", "a", "}", "\n">>,
      <<"#", " ", "x", " ", "{", "\n">>,
      <<"}", "\n">> }

\* ----------------------------------------------------------------- actions

Init ==
    /\ text = <<>>
    /\ files = <<>>
    /\ braceCall = None
    /\ symbols = None
    /\ definition = None
    /\ query = None
    /\ cancelled = FALSE
    /\ scan = None
    /\ hover = None
    /\ folding = None

\* The editor appends one fragment of F to the document; results of earlier
\* queries belong to the old snapshot and are dropped.
Type(F, maxLen) ==
    \E f \in F :
        /\ Len(text) + Len(f) <= maxLen
        /\ text' = text \o f
        /\ braceCall' = None
        /\ symbols' = None
        /\ definition' = None
        /\ query' = None
        /\ cancelled' = FALSE
        /\ scan' = None
        /\ hover' = None
        /\ folding' = None
        /\ UNCHANGED files

TypeBrace == Type(BraceAlphabet, MaxBraceLen)

\* The editor appends one whole line of F while the document has fewer than
\* maxLines lines.
TypeLine(F, maxLines) ==
    \E f \in F :
        /\ LineNumberOf(text, Len(text)) < maxLines
        /\ text' = text \o f
        /\ braceCall' = None
        /\ symbols' = None
        /\ definition' = None
        /\ query' = None
        /\ cancelled' = FALSE
        /\ scan' = None
        /\ hover' = None
        /\ folding' = None
        /\ UNCHANGED files

TypeOutline == TypeLine(OutlineLines, MaxOutlineLines)

TypeNesting == TypeLine(NestingLines, MaxNestingLines)

TypeLocal == TypeLine(LocalLines, MaxLocalLines)

TypeOrder == TypeLine(OrderLines, MaxOrderLines)

TypeFolding == TypeLine(FoldingLines, MaxFoldingLines)

\* The folding query on the current text.
ProvideFoldingRanges ==
    /\ folding = None
    /\ folding' = Returned(provideFoldingRanges(text))
    /\ UNCHANGED <<text, files, braceCall, symbols, definition, query, cancelled, scan, hover>>

\* The editor replaces the document by one statement with a value.
TypeValue ==
    \E c \in ValueContexts :
        \E v \in Values :
            /\ text' = c.before \o v \o c.after
            /\ text' # text
            /\ braceCall' = None
            /\ symbols' = None
            /\ definition' = None
            /\ query' = None
            /\ cancelled' = FALSE
            /\ scan' = None
            /\ hover' = None
            /\ folding' = None
            /\ UNCHANGED files

\* The outline query on the current text.
ProvideDocumentSymbols ==
    /\ symbols = None
    /\ symbols' = Returned(provideDocumentSymbols(text))
    /\ UNCHANGED <<text, files, braceCall, definition, query, cancelled, scan, hover, folding>>

\* One call findMatchingBrace(text, o) on the current text.
CallFindMatchingBrace ==
    \E o \in 0..(Len(text) - 1) :
        /\ braceCall' = Returned([open |-> o, close |-> findMatchingBrace(text, o)])
        /\ UNCHANGED <<text, files, symbols, definition, query, cancelled, scan, hover, folding>>

\* The editor appends one snippet to the document.
TypeDefinition ==
    \E f \in DefinitionSnippets :
        /\ text \o f \in DefinitionDocuments
        /\ text' = text \o f
        /\ braceCall' = None
        /\ symbols' = None
        /\ definition' = None
        /\ query' = None
        /\ cancelled' = FALSE
        /\ scan' = None
        /\ hover' = None
        /\ folding' = None
        /\ UNCHANGED files

\* The editor appends one snippet of F to the document, within the texts D.
TypeSnippet(F, D) ==
    \E f \in F :
        /\ text \o f \in D
        /\ text' = text \o f
        /\ braceCall' = None
        /\ symbols' = None
        /\ definition' = None
        /\ query' = None
        /\ cancelled' = FALSE
        /\ scan' = None
        /\ hover' = None
        /\ folding' = None
        /\ UNCHANGED files

TypeSearch == TypeSnippet(SearchSnippets, SearchDocuments)

TypeHover == TypeSnippet(HoverSnippets, HoverDocuments)

\* One hover query on the current text, at offset p.
ProvideHover ==
    /\ hover = None
    /\ \E p \in 0..Len(text) :
           hover' = Returned([position |-> p, contents |-> provideHover(text, p)])
    /\ UNCHANGED <<text, files, braceCall, symbols, definition, query, cancelled, scan,
                   folding>>

TypeScope == TypeLine(ScopeLines, MaxScopeLines)

\* A .tcl file with a text of F appears in the workspace, between two queries.
AddFile(F, maxFiles) ==
    \E f \in F :
        /\ Len(files) < maxFiles
        /\ query = None
        /\ files' = Append(files, f)
        /\ definition' = None
        /\ UNCHANGED <<text, braceCall, symbols, query, cancelled, scan, hover, folding>>

CreateFile == AddFile(WorkspaceTexts, MaxFiles)

CreateSearchFile == AddFile(SearchTexts, MaxSearchFiles)

\* The files vscode.workspace.findFiles('**/*.tcl') returns when the open
\* document comes k-th among them (k = 0: the document is not a file of the
\* workspace); the order of the result is not specified.
FoundFiles(k) ==
    LET others == [j \in 1..Len(files) |-> [uri |-> j, text |-> files[j]]]
    IN  IF k = 0 THEN others
        ELSE SubSeq(others, 1, k - 1) \o <<[uri |-> 0, text |-> text]>>
             \o SubSeq(others, k, Len(others))

\* What a finished query leaves: the offset asked at, the location returned
\* (NoLocation for null), the files openTextDocument was called on, whether
\* the promise was rejected, and the range getContainingProcedureRange gave
\* when the word was looked up as a variable.
Result(p, location, opened, rejected, scope) ==
    Returned([position |-> p, location |-> location, opened |-> opened,
              rejected |-> rejected, scope |-> scope])

\* getContainingProcedureRange as findVariableDefinition calls it for the
\* query at offset p; None when the query does not call it.
ScopeOf(t, p) ==
    IF getWordRangeAtPosition(t, p) # None /\ isVariableReference(t, p)
    THEN getContainingProcedureRange(t, positionAt(t, p))
    ELSE None

\* The definition query at offset p of the current text, up to its first
\* await in searchInWorkspace: it returns, or it is suspended with the files
\* that findFiles gave still to be opened.
ProvideDefinition ==
    /\ definition = None
    /\ query = None
    /\ \E p \in 0..Len(text) :
           LET r == provideDefinition(text, p)
           IN  \E k \in 0..(Len(files) + 1) :
                   LET found == FoundFiles(k)
                   IN  IF r.search = None \/ found = <<>>
                       THEN /\ definition' = Result(p, r.location, <<>>, FALSE,
                                                    ScopeOf(text, p))
                            /\ query' = None
                       ELSE /\ query' = Returned([position |-> p,
                                                  symbolName |-> r.search[1],
                                                  pending |-> found, opened |-> <<>>])
                            /\ definition' = None
    /\ cancelled' = FALSE
    /\ UNCHANGED <<text, files, braceCall, symbols, scan, hover, folding>>

\* One iteration of the loop of searchInWorkspace: openTextDocument gives the
\* next file and the two patterns are tried on its text.
OpenTextDocument ==
    /\ query # None
    /\ LET q == query[1]
           file == Head(q.pending)
           found == SearchFile(file.uri, file.text, q.symbolName)
           opened == Append(q.opened, file.uri)
       IN  IF found # NoLocation \/ Len(q.pending) = 1
           THEN /\ definition' = Result(q.position, found, opened, FALSE, None)
                /\ query' = None
           ELSE /\ query' = Returned([q EXCEPT !.pending = Tail(q.pending),
                                               !.opened = opened])
                /\ definition' = None
    /\ UNCHANGED <<text, files, braceCall, symbols, cancelled, scan, hover, folding>>

\* openTextDocument rejects for the next file (the file was removed or cannot
\* be read): nothing catches it and the query's promise is rejected.
OpenTextDocumentFails ==
    /\ query # None
    /\ Head(query[1].pending).uri # 0
    /\ definition' = Result(query[1].position, NoLocation, query[1].opened, TRUE, None)
    /\ query' = None
    /\ UNCHANGED <<text, files, braceCall, symbols, cancelled, scan, hover, folding>>

\* The host requests cancellation of the suspended query.
RequestCancellation ==
    /\ query # None
    /\ ~cancelled
    /\ cancelled' = TRUE
    /\ UNCHANGED <<text, files, braceCall, symbols, definition, query, scan, hover, folding>>

\* The editor appends a line; the loops are synchronous, so no edit falls
\* inside a running one.
TypeLoop == (scan # None => scan[1].done) /\ TypeLine(LoopLines, MaxLoopLines)

\* A query enters one of its pattern loops on the current text.
StartPatternLoop ==
    /\ scan = None
    /\ \E loop \in PatternLoops :
           \E subject \in Subjects(loop, text) :
               scan' = Returned(Loop(loop, subject, 0, 0, 0))
    /\ UNCHANGED <<text, files, braceCall, symbols, definition, query, cancelled, hover, folding>>

\* A query calls findMatchingBrace(text, openBracePos) with the offset of a
\* "{" its pattern matched, or, when processNamespaces matched no brace, with
\* the offset before the match, which starts a line.
StartBraceLoop ==
    /\ scan = None
    /\ \E openBracePos \in (0 - 1)..(Len(text) - 1) :
           /\ CharAt(text, openBracePos) = "{" \/ AtLineStart(text, openBracePos + 1)
           /\ scan' = Returned(Loop("findMatchingBrace", text, openBracePos + 1, 1, 0))
    /\ UNCHANGED <<text, files, braceCall, symbols, definition, query, cancelled, hover, folding>>

\* A hover calls extractDocComment(text, symbolPos) and reaches its loop.
StartDocCommentLoop ==
    /\ scan = None
    /\ \E symbolPos \in 0..Len(text) :
           LET lineStartPos == LastLineBreak(text, symbolPos - 1)
           IN  /\ lineStartPos # 0 - 1
               /\ scan' = Returned(Loop("extractDocComment", text, lineStartPos - 1, 0, 0))
    /\ UNCHANGED <<text, files, braceCall, symbols, definition, query, cancelled, hover, folding>>

\* A definition or hover query calls isVariableReference for the offset p of
\* a word.
StartVariableReferenceLoop ==
    /\ scan = None
    /\ \E p \in 0..Len(text) :
           /\ getWordRangeAtPosition(text, p) # None
           /\ scan' = Returned(Loop("isVariableReference", text, p - 1, 0,
                                    LineStartOf(text, p)))
    /\ UNCHANGED <<text, files, braceCall, symbols, definition, query, cancelled, hover, folding>>

\* The running loop evaluates its condition once more.
Iterate(next) ==
    /\ scan # None
    /\ ~scan[1].done
    /\ scan[1].steps <= Len(scan[1].subject) + 1
    /\ scan' = Returned([next EXCEPT !.steps = @ + 1])
    /\ UNCHANGED <<text, files, braceCall, symbols, definition, query, cancelled, hover, folding>>

ExecStep == scan # None /\ scan[1].loop \in PatternLoops /\ Iterate(ExecIteration(scan[1]))

BraceStep ==
    scan # None /\ scan[1].loop = "findMatchingBrace" /\ Iterate(BraceIteration(scan[1]))

DocCommentStep ==
    scan # None /\ scan[1].loop = "extractDocComment" /\ Iterate(DocCommentIteration(scan[1]))

VariableReferenceStep ==
    /\ scan # None
    /\ scan[1].loop = "isVariableReference"
    /\ Iterate(VariableReferenceIteration(scan[1]))

NextBrace == TypeBrace \/ CallFindMatchingBrace

SpecBrace == Init /\ [][NextBrace]_vars

NextOutline == TypeOutline \/ ProvideDocumentSymbols

SpecOutline == Init /\ [][NextOutline]_vars

NextNesting == TypeNesting \/ ProvideDocumentSymbols

SpecNesting == Init /\ [][NextNesting]_vars

NextLocal == TypeLocal \/ ProvideDocumentSymbols

SpecLocal == Init /\ [][NextLocal]_vars

NextValue == TypeValue \/ ProvideDocumentSymbols

SpecValue == Init /\ [][NextValue]_vars

NextHover == TypeHover \/ ProvideHover

SpecHover == Init /\ [][NextHover]_vars

NextOrder == TypeOrder \/ ProvideDocumentSymbols

SpecOrder == Init /\ [][NextOrder]_vars

NextFolding == TypeFolding \/ ProvideFoldingRanges

SpecFolding == Init /\ [][NextFolding]_vars

NextDefinition == TypeDefinition \/ CreateFile \/ ProvideDefinition \/ OpenTextDocument

SpecDefinition == Init /\ [][NextDefinition]_vars

NextScope == TypeScope \/ ProvideDefinition

SpecScope == Init /\ [][NextScope]_vars

NextSearch ==
    \/ TypeSearch
    \/ CreateSearchFile
    \/ ProvideDefinition
    \/ OpenTextDocument
    \/ OpenTextDocumentFails
    \/ RequestCancellation

SpecSearch == Init /\ [][NextSearch]_vars

NextLoops ==
    \/ TypeLoop
    \/ StartPatternLoop
    \/ ExecStep
    \/ StartBraceLoop
    \/ BraceStep
    \/ StartDocCommentLoop
    \/ DocCommentStep
    \/ StartVariableReferenceLoop
    \/ VariableReferenceStep

SpecLoops == Init /\ [][NextLoops]_vars

\* ------------------------------------------------- brace matcher: claims

\* Number of offsets k in lo..hi whose token is c.
Count(t, c, lo, hi) == Cardinality({k \in lo..hi : CharAt(t, k) = c})

\* Depth after offset k when counting starts at 1 just after offset o.
DepthAfter(t, o, k) == 1 + Count(t, "{", o + 1, k) - Count(t, "}", o + 1, k)

\* Depth of the whole-text count after offset k, starting at 0.
DepthFromStart(t, k) == Count(t, "{", 0, k) - Count(t, "}", 0, k)

\* Well-formed brace text: no prefix closes more than it opens, and the
\* whole text closes everything.
Balanced(t) ==
    /\ \A k \in 0..(Len(t) - 1) : DepthFromStart(t, k) >= 0
    /\ DepthFromStart(t, Len(t) - 1) = 0

\* C1: on a balanced text, findMatchingBrace on an opening brace at o returns
\* an offset c > o holding "}", and the depth counted from 1 after o is 0 at
\* c and above 0 at every offset strictly between o and c.
C1_MatchOnBalanced ==
    (braceCall # None /\ Balanced(text) /\ CharAt(text, braceCall[1].open) = "{")
    => LET o == braceCall[1].open
           c == braceCall[1].close
       IN  /\ c # Null
           /\ c > o
           /\ CharAt(text, c) = "}"
           /\ DepthAfter(text, o, c) = 0
           /\ \A k \in (o + 1)..(c - 1) : DepthAfter(text, o, k) > 0

\* A balanced text with a nested pair, matched from the outer opening brace.
C1_Witness ==
    /\ braceCall # None
    /\ Balanced(text)
    /\ text = <<"{", "{", "}", "x", "}">>
    /\ braceCall[1].open = 0
    /\ braceCall[1].close = 4

\* The text without the token at offset o.
RemoveAt(t, o) == Substring(t, 0, o) \o Substring(t, o + 1, Len(t))

\* The opening brace at o is the extra one of an otherwise well-formed text:
\* without it the text is balanced, and what follows it is balanced on its
\* own, so no "}" is left over to close it.
ExtraOpen(t, o) ==
    /\ CharAt(t, o) = "{"
    /\ Balanced(RemoveAt(t, o))
    /\ Balanced(Substring(t, o + 1, Len(t)))

\* C2: findMatchingBrace on the one extra, unmatched "{" of an otherwise
\* balanced text returns null.
C2_ExtraOpenNotFound ==
    (braceCall # None /\ ExtraOpen(text, braceCall[1].open))
    => braceCall[1].close = Null

\* The extra brace sits before a balanced pair and the scan ran to the end.
C2_Witness ==
    /\ braceCall # None
    /\ text = <<"{", "}", "{", "x", "{", "}">>
    /\ braceCall[1].open = 2
    /\ ExtraOpen(text, 2)
    /\ braceCall[1].close = Null

\* ------------------------------------------------------- outline: claims

\* The symbols of the outline that was returned.
Nodes == symbols[1]

\* C3: in the returned tree every child's range lies inside its parent's range.
C3_ChildInsideParent ==
    symbols # None
    => \A j \in 1..Len(Nodes) :
           Nodes[j].parent # 0
           => containsRange(Nodes[Nodes[j].parent].range, Nodes[j].range)

\* C4: every symbol's selection range lies inside its range.
C4_SelectionInsideRange ==
    symbols # None
    => \A j \in 1..Len(Nodes) : containsRange(Nodes[j].range, Nodes[j].selectionRange)

\* The closing brace that matches the opening brace at o by counting depth:
\* the least offset after o where the depth counted from 1 is 0; Null if none.
MatchingClose(t, o) ==
    LET cs == {c \in (o + 1)..(Len(t) - 1) : DepthAfter(t, o, c) = 0}
    IN  IF cs = {} THEN Null ELSE CHOOSE c \in cs : \A d \in cs : c <= d

\* A procedure is declared at offset i: `proc name {args} {` at the start of a
\* line, the argument list closed by its matching brace.
ProcDeclaredAt(t, i) ==
    LET s == SkipIn(t, i + 1, SpaceTokens)
        w == SkipIn(t, s, WordTokens)
        ao == SkipIn(t, w, SpaceTokens)
        ac == MatchingClose(t, ao)
        bo == SkipIn(t, ac + 1, SpaceTokens)
    IN  /\ AtLineStart(t, i)
        /\ CharAt(t, i) = "proc"
        /\ s > i + 1
        /\ w > s
        /\ CharAt(t, ao) = "{"
        /\ ac # Null
        /\ CharAt(t, bo) = "{"

\* The parts of the declaration at i.
ProcDeclaration(t, i) ==
    LET s == SkipIn(t, i + 1, SpaceTokens)
        w == SkipIn(t, s, WordTokens)
        ao == SkipIn(t, w, SpaceTokens)
        ac == MatchingClose(t, ao)
        bo == SkipIn(t, ac + 1, SpaceTokens)
    IN  [name |-> Substring(t, s, w), args |-> Substring(t, ao + 1, ac),
         bodyOpen |-> bo, bodyClose |-> MatchingClose(t, bo)]

\* The Procedure symbols of the outline for the declaration d at offset i:
\* named as declared and starting at the proc keyword.
ProcSymbolsFor(t, i, d) ==
    {j \in 1..Len(Nodes) :
        /\ Nodes[j].kind = "Function"
        /\ Nodes[j].name = d.name
        /\ Nodes[j].range.start = positionAt(t, i)}

\* C8: every procedure declared at the start of a line with a balanced body
\* has exactly one Procedure symbol, from the proc keyword through the closing
\* brace of the body, whose detail is the trimmed argument list.
C8_OneSymbolPerProcedure ==
    symbols # None
    => \A i \in 0..(Len(text) - 1) :
           (ProcDeclaredAt(text, i) /\ ProcDeclaration(text, i).bodyClose # Null)
           => LET d == ProcDeclaration(text, i)
                  js == ProcSymbolsFor(text, i, d)
              IN  /\ Cardinality(js) = 1
                  /\ \A j \in js :
                         /\ Nodes[j].range
                              = Range(positionAt(text, i), positionAt(text, d.bodyClose + 1))
                         /\ Nodes[j].detail = ArgsDetail(Trim(d.args))

\* The opening brace of the namespace block whose symbol is Nodes[j].
NamespaceOpen(t, j) == SkipNotIn(t, offsetAt(t, Nodes[j].range.start), {"{"})

\* A `variable name` statement starts at offset i.
VariableDeclaredAt(t, i) ==
    /\ CharAt(t, i) = "variable"
    /\ CharAt(t, i + 1) \in SpaceTokens
    /\ CharAt(t, SkipIn(t, i + 1, SpaceTokens)) \in WordTokens

\* A `proc name {args} {` header starts at offset i (anywhere on its line).
ProcHeaderAt(t, i) ==
    LET s == SkipIn(t, i + 1, SpaceTokens)
        w == SkipIn(t, s, WordTokens)
        ao == SkipIn(t, w, SpaceTokens)
        ac == MatchingClose(t, ao)
    IN  /\ CharAt(t, i) = "proc"
        /\ s > i + 1
        /\ w > s
        /\ CharAt(t, ao) = "{"
        /\ ac # Null
        /\ CharAt(t, SkipIn(t, ac + 1, SpaceTokens)) = "{"

\* Nodes[j] has a child of the given kind whose range starts at offset i.
HasChildAt(t, j, kind, i) ==
    \E c \in 1..Len(Nodes) :
        /\ Nodes[c].parent = j
        /\ Nodes[c].kind = kind
        /\ Nodes[c].range.start = positionAt(t, i)

\* C9: the children of a namespace symbol come from exactly its brace-matched
\* body: every `variable` statement and every `proc` header between the
\* namespace's opening brace and its matching closing brace is a child, and
\* every Variable or Procedure child starts between the two braces.
C9_ChildrenAreTheBody ==
    symbols # None
    => \A j \in 1..Len(Nodes) :
           (Nodes[j].kind = "Namespace" /\ MatchingClose(text, NamespaceOpen(text, j)) # Null)
           => LET o == NamespaceOpen(text, j)
                  e == MatchingClose(text, o)
              IN  /\ \A i \in (o + 1)..(e - 1) :
                         /\ VariableDeclaredAt(text, i) => HasChildAt(text, j, "Variable", i)
                         /\ ProcHeaderAt(text, i) => HasChildAt(text, j, "Function", i)
                  /\ \A c \in 1..Len(Nodes) :
                         (Nodes[c].parent = j /\ Nodes[c].kind \in {"Variable", "Function"})
                         => /\ isAfter(Nodes[c].range.start, positionAt(text, o))
                            /\ isBefore(Nodes[c].range.start, positionAt(text, e))

\* A namespace block is declared at offset i: `namespace eval name {` at the
\* start of a line.
NamespaceDeclaredAt(t, i) ==
    LET s1 == SkipIn(t, i + 1, SpaceTokens)
        s2 == SkipIn(t, s1 + 1, SpaceTokens)
        w == SkipIn(t, s2, WordTokens)
    IN  /\ AtLineStart(t, i)
        /\ CharAt(t, i) = "namespace"
        /\ s1 > i + 1
        /\ CharAt(t, s1) = "eval"
        /\ s2 > s1 + 1
        /\ w > s2
        /\ CharAt(t, SkipIn(t, w, SpaceTokens)) = "{"

\* The block declared at i is a procedure or a namespace whose opening brace
\* has no matching closing brace before the end of the text.
UnmatchedBlockAt(t, i) ==
    \/ ProcDeclaredAt(t, i) /\ ProcDeclaration(t, i).bodyClose = Null
    \/ NamespaceDeclaredAt(t, i) /\ MatchingClose(t, SkipNotIn(t, i, {"{"})) = Null

\* The kind of symbol the block declared at i is reported as.
BlockKindAt(t, i) == IF CharAt(t, i) = "proc" THEN "Function" ELSE "Namespace"

\* The procedure and namespace symbols of an outline, without their place in
\* the tree.
Blocks(nodes) ==
    {[kind |-> nodes[j].kind, name |-> nodes[j].name, range |-> nodes[j].range] :
        j \in {k \in 1..Len(nodes) : nodes[k].kind \in {"Function", "Namespace"}}}

\* The symbols of the block declared at offset i of the queried text.
OwnBlocks(t, i) ==
    {b \in Blocks(Nodes) : b.kind = BlockKindAt(t, i) /\ b.range.start = positionAt(t, i)}

\* The text without its line number k.
RemoveLine(t, k) ==
    LET s == OffsetOfLine(t, k, 0)
    IN  Substring(t, 0, s) \o Substring(t, LineEndOf(t, s) + 1, Len(t))

\* A position of the text, in the text without line k.
WithoutLine(p, k) ==
    IF p.line > k THEN [line |-> p.line - 1, character |-> p.character] ELSE p

\* The line of the last token of the text.
LastLine(t) == LineNumberOf(t, Len(t) - 1)

\* C7: a procedure or namespace whose opening brace is never closed still has
\* a symbol; the symbol's span ends at the last line of the file; and the
\* other blocks are reported as they are when the block's header line is
\* absent.
C7_UnmatchedBlockRunsToLastLine ==
    symbols # None
    => \A i \in 0..(Len(text) - 1) :
           UnmatchedBlockAt(text, i)
           => LET k == positionAt(text, i).line
                  others == Blocks(Nodes) \ OwnBlocks(text, i)
              IN  /\ \E b \in OwnBlocks(text, i) : b.range.end.line = LastLine(text)
                  /\ {[kind |-> b.kind, name |-> b.name,
                       range |-> [start |-> WithoutLine(b.range.start, k),
                                  end |-> WithoutLine(b.range.end, k)]] : b \in others}
                       = Blocks(provideDocumentSymbols(RemoveLine(text, k)))

\* ---------------------------------------------------- definition: claims

\* The offset the last definition query was asked at, and its answer.
QueryOffset == definition[1].position

Answer == definition[1].location

\* A `set name value` statement starts at offset q.
AssignedAt(t, q, name) ==
    LET s == SkipIn(t, q + 1, SpaceTokens)
    IN  /\ CharAt(t, q) = "set"
        /\ s > q + 1
        /\ LiteralAt(t, s, name)
        /\ CharAt(t, s + Len(name)) \in SpaceTokens

\* Offset p holds the name of an unqualified `$name` reference.
UnqualifiedReferenceAt(t, p) ==
    /\ CharAt(t, p - 1) = "$"
    /\ CharAt(t, p) \in WordTokens
    /\ CharAt(t, p + 1) \notin WordColonTokens

\* The headers of the procedures whose closed body holds offset p.
EnclosingProcedures(t, p) ==
    {i \in 0..(Len(t) - 1) :
        /\ ProcHeaderAt(t, i)
        /\ ProcDeclaration(t, i).bodyClose # Null
        /\ ProcDeclaration(t, i).bodyOpen < p
        /\ p < ProcDeclaration(t, i).bodyClose}

\* The `set name` statements inside the body of the procedure declared at i.
AssignmentsIn(t, i, name) ==
    {q \in (ProcDeclaration(t, i).bodyOpen + 1)..(ProcDeclaration(t, i).bodyClose - 1) :
        AssignedAt(t, q, name)}

\* C5: a query on an unqualified `$x` reference inside a procedure whose body
\* holds `set x ...` answers with a `set x` of that procedure's body, whatever
\* the namespace or the rest of the file declares.
C5_LocalSetPreferred ==
    definition # None
    => LET p == QueryOffset
           procs == EnclosingProcedures(text, p)
           i == CHOOSE a \in procs : \A b \in procs : b <= a
           sets == AssignmentsIn(text, i, <<CharAt(text, p)>>)
       IN  (UnqualifiedReferenceAt(text, p) /\ procs # {} /\ sets # {})
           => /\ Answer # NoLocation
              /\ Answer[1].uri = 0
              /\ \E q \in sets : Answer[1].range.start = positionAt(text, q)

\* The word NS::leaf the query at offset p is asked on: None, or
\* <<[namespace, leaf]>> when a "::" splits the word and no "$" precedes it.
QualifiedReferenceAt(t, p) ==
    LET r == getWordRangeAtPosition(t, p)
        w == Substring(t, r[1][1], r[1][2])
        sep == LastSeparator(w)
    IN  IF r = None THEN None
        ELSE IF sep > 1 /\ sep < Len(w) /\ CharAt(t, r[1][1] - 1) # "$"
        THEN Returned([namespace |-> SubSeq(w, 1, sep - 1), leaf |-> SubSeq(w, sep + 1, Len(w))])
        ELSE None

\* `namespace eval ns {` ends with the opening brace at offset o.
NamespaceOpensAt(t, ns, o) ==
    /\ CharAt(t, o) = "{"
    /\ \E i \in 0..o :
           LET s1 == SkipIn(t, i + 1, SpaceTokens)
               s2 == SkipIn(t, s1 + 1, SpaceTokens)
           IN  /\ CharAt(t, i) = "namespace"
               /\ s1 > i + 1
               /\ CharAt(t, s1) = "eval"
               /\ s2 > s1 + 1
               /\ LiteralAt(t, s2, ns)
               /\ SkipIn(t, s2 + Len(ns), SpaceTokens) = o

\* The brace-matched bodies <<open, close>> of the `namespace eval ns {`
\* blocks of the text t.
NamespaceBodies(t, ns) ==
    {<<o, MatchingClose(t, o)>> :
        o \in {b \in 0..(Len(t) - 1) : NamespaceOpensAt(t, ns, b) /\ MatchingClose(t, b) # Null}}

\* The headers `proc leaf {args} {` of the text t.
ProceduresNamed(t, leaf) ==
    {q \in 0..(Len(t) - 1) : ProcHeaderAt(t, q) /\ ProcDeclaration(t, q).name = leaf}

\* Offset q lies inside one of the bodies.
InsideSome(bodies, q) == \E b \in bodies : b[1] < q /\ q < b[2]

\* The text of the file a location points into.
TextOf(uri) == IF uri = 0 THEN text ELSE files[uri]

\* C6: a query on a qualified reference NS::leaf answers with a location
\* inside the brace-matched body of `namespace eval NS { ... }` whenever that
\* body declares `proc leaf`, and never with an identically named procedure
\* declared outside the namespace's bodies.
C6_QualifiedInsideNamespace ==
    definition # None
    => LET ref == QualifiedReferenceAt(text, QueryOffset)
           bodies == NamespaceBodies(text, ref[1].namespace)
           inside == {q \in ProceduresNamed(text, ref[1].leaf) : InsideSome(bodies, q)}
       IN  ref # None
           => /\ inside # {}
                 => /\ Answer # NoLocation
                    /\ Answer[1].uri = 0
                    /\ \E b \in bodies :
                           /\ isAfter(Answer[1].range.start, positionAt(text, b[1]))
                           /\ isBefore(Answer[1].range.start, positionAt(text, b[2]))
              /\ Answer # NoLocation
                 => LET t == TextOf(Answer[1].uri)
                    IN  \A q \in ProceduresNamed(t, ref[1].leaf) :
                            Answer[1].range.start = positionAt(t, q)
                            => InsideSome(NamespaceBodies(t, ref[1].namespace), q)

\* ----------------------------------------------- workspace search: claims

\* The declarations `set name value` and `variable name` of the text t.
DeclarationsOf(t, name) ==
    {q \in 0..(Len(t) - 1) :
        \/ AssignedAt(t, q, name)
        \/ LET s == SkipIn(t, q + 1, SpaceTokens)
           IN  /\ CharAt(t, q) = "variable"
               /\ s > q + 1
               /\ LiteralAt(t, s, name)
               /\ CharAt(t, s + Len(name)) \notin WordColonTokens}

\* The other files of the workspace that the finished query opened.
OpenedFiles == {definition[1].opened[k] : k \in 1..Len(definition[1].opened)}

\* C11: for an unqualified `$name` reference the first match wins: when the
\* document declares the name the answer is one of its declarations, and
\* when it does not, NotFound is returned only after every other file of the
\* workspace was searched.
C11_VariableLookupReachesWorkspace ==
    (definition # None /\ ~definition[1].rejected /\ UnqualifiedReferenceAt(text, QueryOffset))
    => LET decls == DeclarationsOf(text, <<CharAt(text, QueryOffset)>>)
       IN  /\ decls # {}
              => /\ Answer # NoLocation
                 /\ Answer[1].uri = 0
                 /\ \E q \in decls : Answer[1].range.start = positionAt(text, q)
           /\ (decls = {} /\ Answer = NoLocation)
              => \A j \in 1..Len(files) : j \in OpenedFiles

\* The headers `proc ns::leaf {args} {` of the text t.
QualifiedProceduresNamed(t, ns, leaf) ==
    {q \in 0..(Len(t) - 1) :
        LET s == SkipIn(t, q + 1, SpaceTokens)
            w == s + Len(ns) + 1 + Len(leaf)
            ao == SkipIn(t, w, SpaceTokens)
            ac == MatchingClose(t, ao)
        IN  /\ CharAt(t, q) = "proc"
            /\ s > q + 1
            /\ LiteralAt(t, s, ns \o <<"::">> \o leaf)
            /\ CharAt(t, ao) = "{"
            /\ ac # Null
            /\ CharAt(t, SkipIn(t, ac + 1, SpaceTokens)) = "{"}

\* The members named leaf that the bodies of `namespace eval ns {` declare in
\* the text t.
MembersNamed(t, ns, leaf) ==
    {q \in ProceduresNamed(t, leaf) \cup DeclarationsOf(t, leaf) :
        InsideSome(NamespaceBodies(t, ns), q)}

\* C14: when the open document does not declare the qualified name NS::leaf,
\* and a file of the workspace declares `proc NS::leaf {args} {`, the answer
\* is the location of such a declaration.
C14_QualifiedFoundInWorkspace ==
    (definition # None /\ ~definition[1].rejected /\ ~cancelled
        /\ QualifiedReferenceAt(text, QueryOffset) # None)
    => LET ref == QualifiedReferenceAt(text, QueryOffset)[1]
           declaring == {j \in 1..Len(files) :
                            QualifiedProceduresNamed(files[j], ref.namespace, ref.leaf) # {}}
       IN  (MembersNamed(text, ref.namespace, ref.leaf) = {} /\ declaring # {})
           => /\ Answer # NoLocation
              /\ Answer[1].uri \in declaring
              /\ \E q \in QualifiedProceduresNamed(files[Answer[1].uri], ref.namespace, ref.leaf) :
                     Answer[1].range.start = positionAt(files[Answer[1].uri], q)

\* The bare word the query at offset p is asked on: None, or <<name>> when
\* the word holds no "::" and no "$" precedes it.
BareWordAt(t, p) ==
    LET r == getWordRangeAtPosition(t, p)
        w == Substring(t, r[1][1], r[1][2])
    IN  IF r = None THEN None
        ELSE IF Len(w) = 1 /\ w[1] \in WordTokens /\ CharAt(t, r[1][1] - 1) # "$"
        THEN Returned(w)
        ELSE None

\* The headers `namespace eval name {` of the text t.
NamespacesNamed(t, name) ==
    {i \in 0..(Len(t) - 1) :
        LET s1 == SkipIn(t, i + 1, SpaceTokens)
            s2 == SkipIn(t, s1 + 1, SpaceTokens)
        IN  /\ CharAt(t, i) = "namespace"
            /\ s1 > i + 1
            /\ CharAt(t, s1) = "eval"
            /\ s2 > s1 + 1
            /\ LiteralAt(t, s2, name)
            /\ CharAt(t, SkipIn(t, s2 + Len(name), SpaceTokens)) = "{"}

\* The answer is the open document's location that starts at one of the
\* offsets.
AnswersAt(offsets) ==
    /\ Answer # NoLocation
    /\ Answer[1].uri = 0
    /\ \E q \in offsets : Answer[1].range.start = positionAt(text, q)

\* C13: a query on a bare word resolves to a procedure of that name when the
\* document declares one, else to a namespace of that name when it declares
\* one, else to a `set`/`variable` declaration of that name when that is all
\* the document and the workspace declare.
C13_BareWordOrder ==
    (definition # None /\ ~definition[1].rejected /\ BareWordAt(text, QueryOffset) # None)
    => LET name == BareWordAt(text, QueryOffset)[1]
           procs == ProceduresNamed(text, name)
           spaces == NamespacesNamed(text, name)
           decls == DeclarationsOf(text, name)
       IN  /\ procs # {} => AnswersAt(procs)
           /\ (procs = {} /\ spaces # {}) => AnswersAt(spaces)
           /\ ( /\ procs = {}
                /\ spaces = {}
                /\ decls # {}
                /\ \A j \in 1..Len(files) :
                       ProceduresNamed(files[j], name) = {} /\ NamespacesNamed(files[j], name) = {} )
              => AnswersAt(decls)

\* The declarations of the open document that match the word at offset p: the
\* procedures and namespaces named by a bare word, the members named by a
\* qualified one.
LocalMatches(t, p) ==
    LET bare == BareWordAt(t, p)
        ref == QualifiedReferenceAt(t, p)
    IN  IF bare # None
        THEN ProceduresNamed(t, bare[1]) \cup NamespacesNamed(t, bare[1])
        ELSE IF ref # None
        THEN MembersNamed(t, ref[1].namespace, ref[1].leaf)
        ELSE {}

\* C15: a query whose word the open document declares never reaches the files
\* of the workspace: it is not suspended on a file, and it answers with one
\* of the document's matching declarations without having opened a file.
C15_LocalBeforeWorkspace ==
    /\ query # None => LocalMatches(text, query[1].position) = {}
    /\ (definition # None /\ LocalMatches(text, QueryOffset) # {})
       => /\ AnswersAt(LocalMatches(text, QueryOffset))
          /\ definition[1].opened = <<>>

\* C16: once cancellation is requested, the suspended query reads no further
\* file: its next step ends it with NotFound and the files opened so far.
C16_CancellationStopsSearch ==
    [][(cancelled /\ query # None /\ query' # query /\ text' = text)
       => /\ definition' # None
          /\ definition'[1].location = NoLocation
          /\ ~definition'[1].rejected
          /\ definition'[1].opened = query[1].opened]_vars

\* C17: a file that cannot be read is skipped: no query ends rejected.
C17_FailedReadSkipped == definition # None => ~definition[1].rejected

\* The headers `proc name {args} {` of the text t that declare symbolName:
\* under that very name, or for a bare symbolName under a name qualified by
\* namespaces.
ProceduresDeclaring(t, symbolName) ==
    {q \in 0..(Len(t) - 1) :
        LET s == SkipIn(t, q + 1, SpaceTokens)
            w == SkipIn(t, s, WordColonTokens)
            name == Substring(t, s, w)
            ao == SkipIn(t, w, SpaceTokens)
            ac == MatchingClose(t, ao)
        IN  /\ CharAt(t, q) = "proc"
            /\ s > q + 1
            /\ \/ name = symbolName
               \/ /\ LastSeparator(symbolName) = 0
                  /\ Len(name) > Len(symbolName) + 1
                  /\ SubSeq(name, Len(name) - Len(symbolName), Len(name))
                        = <<"::">> \o symbolName
            /\ CharAt(t, ao) = "{"
            /\ ac # Null
            /\ CharAt(t, SkipIn(t, ac + 1, SpaceTokens)) = "{"}

\* The files, by uri, that the suspended query q enumerates, in order.
Enumeration(q) == q.opened \o [k \in 1..Len(q.pending) |-> q.pending[k].uri]

\* C18: the step that ends a workspace search answers NotFound exactly when
\* no enumerated file declares a procedure or namespace of the name; else it
\* answers with a declaration of the earliest such file (a procedure if the
\* file declares one, else a namespace) and has opened no file after it.
C18_FirstMatchingFile ==
    [][(query # None /\ definition' # None /\ ~definition'[1].rejected /\ ~cancelled
            /\ text' = text)
       => LET q == query[1]
              d == definition'[1]
              enum == Enumeration(q)
              procs(k) == ProceduresDeclaring(TextOf(enum[k]), q.symbolName)
              spaces(k) == NamespacesNamed(TextOf(enum[k]), q.symbolName)
              matching == {k \in 1..Len(enum) : procs(k) \cup spaces(k) # {}}
              first == CHOOSE k \in matching : \A j \in matching : k <= j
          IN  /\ d.location = NoLocation <=> matching = {}
              /\ matching # {}
                 => /\ d.location # NoLocation
                    /\ d.opened = SubSeq(enum, 1, first)
                    /\ d.location[1].uri = enum[first]
                    /\ \E o \in (IF procs(first) # {} THEN procs(first) ELSE spaces(first)) :
                           d.location[1].range.start = positionAt(TextOf(enum[first]), o)]_vars

\* ------------------------------------------------------- scope: claims

\* A `namespace eval name {` header starts at offset i (anywhere on its line).
NamespaceHeaderAt(t, i) ==
    LET s1 == SkipIn(t, i + 1, SpaceTokens)
        s2 == SkipIn(t, s1 + 1, SpaceTokens)
        w == SkipIn(t, s2, WordColonTokens)
    IN  /\ CharAt(t, i) = "namespace"
        /\ s1 > i + 1
        /\ CharAt(t, s1) = "eval"
        /\ s2 > s1 + 1
        /\ w > s2
        /\ CharAt(t, SkipIn(t, w, SpaceTokens)) = "{"

\* The closed Procedure and Namespace blocks of the text t, each <<from, to>>
\* from its keyword to its closing brace.
ScopeBlocks(t) ==
    {<<i, ProcDeclaration(t, i).bodyClose>> :
        i \in {k \in 0..(Len(t) - 1) :
                  ProcHeaderAt(t, k) /\ ProcDeclaration(t, k).bodyClose # Null}}
    \cup
    {<<i, MatchingClose(t, SkipNotIn(t, i, {"{"}))>> :
        i \in {k \in 0..(Len(t) - 1) :
                  NamespaceHeaderAt(t, k) /\ MatchingClose(t, SkipNotIn(t, k, {"{"})) # Null}}

\* The blocks whose span holds offset p.
BlocksAround(t, p) == {b \in ScopeBlocks(t) : b[1] <= p /\ p <= b[2]}

\* C12: the scope used for an unqualified variable reference is the tightest
\* Procedure or Namespace block that contains the position: the containing
\* block that starts latest and ends earliest, or none when no block
\* contains it.
C12_TightestScope ==
    (definition # None /\ UnqualifiedReferenceAt(text, QueryOffset))
    => LET around == BlocksAround(text, QueryOffset)
           scope == definition[1].scope
       IN  /\ around = {} => scope = None
           /\ around # {}
              => /\ scope # None
                 /\ \E b \in around :
                        /\ \A c \in around : c[1] <= b[1] /\ b[2] <= c[2]
                        /\ scope[1] = Range(positionAt(text, b[1]), positionAt(text, b[2] + 1))

\* The declarations of name in the nearest enclosing scope of offset p: those
\* inside the tightest block around p, or outside every block when no block
\* is around p.
DeclarationsInScope(t, p, name) ==
    LET around == BlocksAround(t, p)
    IN  {q \in DeclarationsOf(t, name) :
            IF around = {}
            THEN BlocksAround(t, q) = {}
            ELSE \E b \in around :
                    /\ \A c \in around : c[1] <= b[1] /\ b[2] <= c[2]
                    /\ b[1] < q /\ q < b[2]}

\* The locations a finished query returned (none for null).
Locations == {Answer[k] : k \in 1..Len(Answer)}

\* C19: a query on an unqualified `$name` reference returns exactly one
\* location, a declaration of the nearest enclosing scope, when that scope
\* declares the name; when it does not and the document declares the name
\* several times, it returns the locations of all those declarations.
C19_AllOrNearest ==
    (definition # None /\ UnqualifiedReferenceAt(text, QueryOffset))
    => LET name == <<CharAt(text, QueryOffset)>>
           decls == DeclarationsOf(text, name)
           near == DeclarationsInScope(text, QueryOffset, name)
       IN  /\ near # {}
              => /\ Cardinality(Locations) = 1
                 /\ AnswersAt(near)
           /\ (near = {} /\ Cardinality(decls) > 1)
              => {l.range.start : l \in Locations} = {positionAt(text, q) : q \in decls}

\* ------------------------------------------------------- loops: claims

\* C20: every loop of the outline, folding, definition and hover queries
\* runs to completion on any text: each evaluation of a pattern loop that
\* does not end it moves lastIndex strictly forward within the text, the
\* brace-matching loop moves one offset forward up to the text's length, the
\* backward loops move strictly backward, and no loop evaluates its
\* condition more often than the text has offsets.
C20_LoopsAdvance ==
    [][(scan # None /\ scan' # None /\ scan'[1].steps = scan[1].steps + 1)
       => LET s == scan[1]
              s2 == scan'[1]
              n == Len(s.subject)
          IN  /\ s2.steps <= n + 1
              /\ ~s2.done
                 => IF s.loop \in PatternLoops
                    THEN s.cursor < s2.cursor /\ s2.cursor <= n
                    ELSE IF s.loop = "findMatchingBrace"
                    THEN s2.cursor = s.cursor + 1 /\ s2.cursor <= n
                    ELSE s2.cursor < s.cursor /\ s2.cursor >= s.low - 1]_vars

\* A pattern loop has matched twice and ended on a text with a brace that is
\* never closed.
C20_Witness ==
    /\ scan # None
    /\ scan[1].done
    /\ scan[1].loop \in PatternLoops
    /\ scan[1].steps >= 3
    /\ \E o \in 0..(Len(text) - 1) :
           CharAt(text, o) = "{" /\ findMatchingBrace(text, o) = Null

\* ------------------------------------------------- outline: nesting claims

\* The Procedure and Namespace symbols whose range contains the range of
\* symbol j.
ScopesAround(nodes, j) ==
    {s \in 1..Len(nodes) :
        /\ nodes[s].kind \in {"Function", "Namespace"}
        /\ containsRange(nodes[s].range, nodes[j].range)}

\* Symbol s lies strictly inside symbol p.
StrictlyInside(nodes, s, p) ==
    containsRange(nodes[p].range, nodes[s].range) /\ nodes[s].range # nodes[p].range

\* C21: every control block of the outline that some Procedure or Namespace
\* symbol contains is a child of the innermost such symbol: its parent is one
\* of them, and no other of them lies strictly inside the parent.
C21_ControlBlockUnderInnermostScope ==
    symbols # None
    => \A j \in 1..Len(Nodes) :
           (Nodes[j].kind = "Object" /\ ScopesAround(Nodes, j) # {})
           => /\ Nodes[j].parent \in ScopesAround(Nodes, j)
              /\ \A s \in ScopesAround(Nodes, j) :
                     ~StrictlyInside(Nodes, s, Nodes[j].parent)

\* C23: a procedure header inside the closed body of another procedure has a
\* top-level Procedure symbol of its own, named as declared and starting at
\* its proc keyword.
C23_InnerProcedureTopLevel ==
    symbols # None
    => \A i \in 0..(Len(text) - 1) :
           (ProcHeaderAt(text, i) /\ EnclosingProcedures(text, i) # {})
           => \E j \in 1..Len(Nodes) :
                  /\ Nodes[j].kind = "Function"
                  /\ Nodes[j].parent = 0
                  /\ Nodes[j].name = ProcDeclaration(text, i).name
                  /\ Nodes[j].range.start = positionAt(text, i)

\* ------------------------------------------- outline: local variable claims

\* The value text of the `set name value` statement at offset q: the rest of
\* the line after the name, without the blanks around it.
AssignedValue(t, q, name) ==
    LET s == SkipIn(t, q + 1, SpaceTokens)
    IN  Trim(Substring(t, s + Len(name), LineEndOf(t, q)))

\* The Variable children of Nodes[j] called name.
VariableChildren(j, name) ==
    {c \in 1..Len(Nodes) :
        Nodes[c].parent = j /\ Nodes[c].kind = "Variable" /\ Nodes[c].name = name}

\* The Procedure symbols of the outline whose declaration has a closed body.
ClosedProcedures(t) ==
    {j \in 1..Len(Nodes) :
        /\ Nodes[j].kind = "Function"
        /\ ProcHeaderAt(t, offsetAt(t, Nodes[j].range.start))
        /\ ProcDeclaration(t, offsetAt(t, Nodes[j].range.start)).bodyClose # Null}

\* The least offset of a non-empty set of offsets.
Earliest(S) == CHOOSE q \in S : \A r \in S : q <= r

\* C22: in every Procedure symbol a name has at most one Variable child, and a
\* name the body assigns with `set name ...` has one whose range and value
\* are those of the earliest `set name` of the body.
C22_RepeatedSetRecordedOnce ==
    symbols # None
    => \A j \in ClosedProcedures(text) :
           \A name \in {<<CharAt(text, k)>> : k \in 0..(Len(text) - 1)} :
               LET sets == AssignmentsIn(text, offsetAt(text, Nodes[j].range.start), name)
               IN  /\ Cardinality(VariableChildren(j, name)) <= 1
                   /\ sets # {}
                      => \E c \in VariableChildren(j, name) :
                             /\ Nodes[c].range
                                  = Range(positionAt(text, Earliest(sets)),
                                          positionAt(text, LineEndOf(text, Earliest(sets))))
                             /\ Nodes[c].detail
                                  = <<"value: ">> \o AssignedValue(text, Earliest(sets), name)

\* C22 witness: an outline of a procedure whose body assigns one name twice,
\* with different values.
C22_Witness ==
    /\ symbols # None
    /\ \E j \in ClosedProcedures(text) :
           \E q, r \in AssignmentsIn(text, offsetAt(text, Nodes[j].range.start), <<"x">>) :
               /\ q < r
               /\ AssignedValue(text, q, <<"x">>) # AssignedValue(text, r, <<"x">>)
               /\ VariableChildren(j, <<"x">>) # {}

\* An `array set name {` statement starts at offset q.
ArrayDeclaredAt(t, q) ==
    LET s1 == SkipIn(t, q + 1, SpaceTokens)
        s2 == SkipIn(t, s1 + 1, SpaceTokens)
        w == SkipIn(t, s2, WordTokens)
    IN  /\ CharAt(t, q) = "array"
        /\ s1 > q + 1
        /\ CharAt(t, s1) = "set"
        /\ s2 > s1 + 1
        /\ w > s2
        /\ CharAt(t, SkipIn(t, w, SpaceTokens)) = "{"

\* The name the statement at q declares.
ArrayName(t, q) ==
    LET s2 == SkipIn(t, SkipIn(t, q + 1, SpaceTokens) + 1, SpaceTokens)
    IN  Substring(t, s2, SkipIn(t, s2, WordTokens))

\* The children of Nodes[j] that start on the text from offset q to the end
\* of its line.
ChildrenOnStatement(t, j, q) ==
    {c \in 1..Len(Nodes) :
        /\ Nodes[c].parent = j
        /\ isBeforeOrEqual(positionAt(t, q), Nodes[c].range.start)
        /\ isBefore(Nodes[c].range.start, positionAt(t, LineEndOf(t, q)))}

\* C24: an `array set name {...}` statement in the body of a procedure gives
\* the Procedure symbol exactly one child, of kind Array and called name.
C24_ArraySetIsOneArrayChild ==
    symbols # None
    => \A j \in ClosedProcedures(text) :
           LET d == ProcDeclaration(text, offsetAt(text, Nodes[j].range.start))
           IN  \A q \in (d.bodyOpen + 1)..(d.bodyClose - 1) :
                   ArrayDeclaredAt(text, q)
                   => /\ Cardinality(ChildrenOnStatement(text, j, q)) = 1
                      /\ \A c \in ChildrenOnStatement(text, j, q) :
                             /\ Nodes[c].kind = "Array"
                             /\ Nodes[c].name = ArrayName(text, q)

\* --------------------------------------------------- outline: value claims

\* The value text of the statement symbol c was made from: what follows the
\* variable's name up to the end of the statement, without the blanks around
\* it.
CapturedValue(t, c) ==
    LET from == offsetAt(t, Nodes[c].range.start)
        name == SkipNotIn(t, from, {Nodes[c].name[1]})
    IN  Trim(Substring(t, name + 1, offsetAt(t, Nodes[c].range.end)))

\* The value a symbol's detail displays: the detail after its `value: ` label.
DisplayedValue(c) == Tail(Nodes[c].detail)

\* C25: a variable symbol displays its captured value unchanged when the
\* value has at most 20 characters, and the first 20 characters followed by
\* `...` when it has more; what it displays has at most 23 characters.
C25_ValueDisplay ==
    symbols # None
    => \A c \in 1..Len(Nodes) :
           (Nodes[c].kind = "Variable" /\ CapturedValue(text, c) # <<>>)
           => /\ Head(Nodes[c].detail) = "value: "
              /\ Len(CapturedValue(text, c)) <= 20
                 => DisplayedValue(c) = CapturedValue(text, c)
              /\ Len(CapturedValue(text, c)) > 20
                 => DisplayedValue(c)
                      = Substring(CapturedValue(text, c), 0, 20) \o <<".", ".", ".">>
              /\ Len(DisplayedValue(c)) <= 23

\* C25 witness: an outline with a variable whose value has more than 20
\* characters.
C25_Witness ==
    /\ symbols # None
    /\ \E c \in 1..Len(Nodes) :
           Nodes[c].kind = "Variable" /\ Len(CapturedValue(text, c)) > 20

\* ------------------------------------------------------------ hover: claims

\* The offset and the contents of the hover query that was answered.
HoverOffset == hover[1].position

HoverContents == hover[1].contents

\* The text of line l of t, without its line break.
LineText(t, l) ==
    LET from == offsetAt(t, [line |-> l, character |-> 0])
    IN  Substring(t, from, LineEndOf(t, from))

RECURSIVE CommentRun(_, _)
\* The comment lines above line l, top to bottom, each without its `#` and
\* the blanks around it: blank lines are passed over and the first other line
\* ends the run.
CommentRun(t, l) ==
    IF l = 0 THEN <<>>
    ELSE LET line == Trim(LineText(t, l - 1))
         IN  IF line = <<>> THEN CommentRun(t, l - 1)
             ELSE IF line[1] = "#" THEN Append(CommentRun(t, l - 1), Trim(Tail(line)))
             ELSE <<>>

\* C26: the hover on the name of a procedure shows, as its documentation,
\* the comment lines above the line of the procedure's first declaration,
\* top to bottom and joined by line breaks, the first line of the file
\* included.
C26_DocCommentIsPrecedingRun ==
    hover # None
    => LET w == BareWordAt(text, HoverOffset)
           decls == ProceduresNamed(text, w[1])
       IN  (w # None /\ ~isVariableReference(text, HoverOffset) /\ decls # {})
           => /\ HoverContents # None
              /\ Len(HoverContents[1]) = 3
              /\ HoverContents[1][3]
                   = Join(CommentRun(text, LineNumberOf(text, Earliest(decls))), <<"\n">>)

\* ---------------------------------------------------------- folding: claims

\* The folding ranges that were returned.
Ranges == folding[1]

\* A block starts at offset i: one of the block keywords, first on its line.
BlockKeywordAt(t, i) ==
    /\ CharAt(t, i) \in {"proc", "namespace"} \cup ControlKeywords
    /\ SkipIn(t, LineStartOf(t, i), {" "}) = i

\* The opening braces of the body of the block at i: the brace on the
\* header's line that is not inside another brace of the header and is
\* closed on a later line.
BodyOpens(t, i) ==
    {b \in i..(LineEndOf(t, i) - 1) :
        /\ CharAt(t, b) = "{"
        /\ Count(t, "{", i, b - 1) = Count(t, "}", i, b - 1)
        /\ MatchingClose(t, b) # Null
        /\ LineNumberOf(t, MatchingClose(t, b)) > LineNumberOf(t, b)}

\* C27: every procedure, namespace and control block whose body is closed on
\* a later line has a folding range from the line of the body's opening brace
\* to the line of its closing brace, and every range ends after it starts.
C27_BlocksFold ==
    folding # None
    => /\ \A i \in 0..(Len(text) - 1) :
              BlockKeywordAt(text, i)
              => \A b \in BodyOpens(text, i) :
                     \E k \in 1..Len(Ranges) :
                         /\ Ranges[k].start = LineNumberOf(text, b)
                         /\ Ranges[k].end = LineNumberOf(text, MatchingClose(text, b))
       /\ \A k \in 1..Len(Ranges) : Ranges[k].end > Ranges[k].start

\* ----------------------------------------------------- outline: order claims

\* Position a is before position b in the document.
Before(a, b) == a.line < b.line \/ (a.line = b.line /\ a.character < b.character)

\* Symbols i and j of the outline are in the same array (the result, or the
\* children of one symbol) and come from the same scan: they have the same
\* kind among namespaces, procedures, variables and arrays.
SameScan(i, j) ==
    /\ Nodes[i].parent = Nodes[j].parent
    /\ Nodes[i].kind = Nodes[j].kind
    /\ Nodes[i].kind \in {"Namespace", "Function", "Variable", "Array"}

\* C28: within each kind the symbols of the result are in the source order of
\* their declarations, and so are the children of a symbol that come from one
\* scan (a namespace's variables, a namespace's procedures, a procedure's
\* local variables).
C28_SourceOrder ==
    symbols # None
    => \A i \in 1..Len(Nodes) : \A j \in 1..Len(Nodes) :
           i < j /\ SameScan(i, j) => Before(Nodes[i].range.start, Nodes[j].range.start)

\* An outline with a namespace that has two variables.
C28_Witness ==
    /\ symbols # None
    /\ \E i \in 1..Len(Nodes) : \E j \in 1..Len(Nodes) :
           /\ i < j /\ SameScan(i, j)
           /\ Nodes[i].kind = "Variable"
           /\ Nodes[i].parent # 0 /\ Nodes[Nodes[i].parent].kind = "Namespace"

\* ------------------------------------------------- hover: consistency claims

\* The hover is on a name that a "$" introduces, inside a procedure.
HoverOnReference ==
    /\ hover # None
    /\ CharAt(text, HoverOffset) \in Names
    /\ CharAt(text, HoverOffset - 1) = "$"
    /\ getContainingProcedureRange(text, positionAt(text, HoverOffset)) # None

\* The statement the hover describes: "set" for a local variable, "variable"
\* for a namespace variable, "none" otherwise.
HoverDeclaration ==
    IF HoverContents = None THEN "none"
    ELSE IF LiteralAt(HoverContents[1][1], 0, <<"**Local Variable**: ">>) THEN "set"
    ELSE IF LiteralAt(HoverContents[1][1], 0, <<"**Namespace Variable**: ">>) THEN "variable"
    ELSE "none"

\* The first word of the statement go-to-definition returns for the hover's
\* position, "none" when it returns no location of the document.
DefinitionDeclaration ==
    LET location == provideDefinition(text, HoverOffset).location
    IN  IF location = NoLocation THEN "none"
        ELSE CharAt(text, offsetAt(text, location[1].range.start))

\* C29: for a `$name` reference inside a procedure, when hover describes a
\* declaration and go-to-definition returns one, it is the same kind of
\* statement: a local `set name` or a namespace `variable name`.
C29_HoverAgreesWithDefinition ==
    HoverOnReference /\ HoverDeclaration # "none" /\ DefinitionDeclaration # "none"
    => HoverDeclaration = DefinitionDeclaration


\* The hover is on the first token of a bare word: a name that neither a "$"
\* nor a [\w:] token precedes.
HoverOnBareWord ==
    /\ hover # None
    /\ CharAt(text, HoverOffset) \in Names
    /\ CharAt(text, HoverOffset - 1) \notin {"$"} \cup WordColonTokens
    /\ CharAt(text, HoverOffset + 1) \notin WordColonTokens

\* The bare word under the hover.
BareWord == <<CharAt(text, HoverOffset)>>

\* What the hover provider answers for a procedure or namespace name.
NameHover(w) ==
    IF getProcedureHover(text, w) # None THEN getProcedureHover(text, w)
    ELSE getNamespaceHover(text, w)

\* What the definition provider answers for a procedure or namespace name.
NameDefinition(w) ==
    IF findProcedureDefinition(text, w) # NoLocation
    THEN Resolved(findProcedureDefinition(text, w))
    ELSE IF findNamespaceDefinition(text, w) # NoLocation
    THEN Resolved(findNamespaceDefinition(text, w))
    ELSE Search(w)

\* C30: a bare word, which no "$" introduces, is resolved by hover and by
\* go-to-definition as a procedure or namespace name, also when it follows a
\* `$var` on its line.
C30_BareWordIsAName ==
    HoverOnBareWord
    => /\ HoverContents = NameHover(BareWord)
       /\ provideDefinition(text, HoverOffset) = NameDefinition(BareWord)

====
